---- MODULE Spec2Model ----
(***************************************************************************)
(* The client interaction logger (UserInteractionLogger, second version in *)
(* src/unnamed/part_003 from line 311) and its CSV mirror (CSVLogger,      *)
(* src/unnamed/part_004), as a state machine.                              *)
(*                                                                         *)
(* One JavaScript event-loop turn is one action: a handler runs to its end *)
(* or to its first await.  A pending fetch is a member of inflight (JSON)  *)
(* or csvInflight (CSV); its completion is an action of its own.  Time is  *)
(* abstracted to "a timer is pending" / "a timer fires".                   *)
(***************************************************************************)
EXTENDS Integers, Sequences, FiniteSets, TLC

VARIABLES
    isEnabled,            \* UserInteractionLogger.isEnabled
    logSystemNoise,       \* UserInteractionLogger.logSystemNoise
    strictBusinessAPIFiltering,
    logQueue,             \* UserInteractionLogger.logQueue
    flushTimer,           \* TRUE while the setInterval of startAutoFlush runs
    inflight,             \* snapshots (logsToSend) of pending POST /api/logs
    jsonCalls,            \* sink side: record id -> number of POSTs that carried it
    jsonStored,           \* sink side: ids of records the backend accepted (2xx)
    csvBuffer,            \* CSVLogger.csvBuffer
    csvInflight,          \* pending POST /api/logs/csv: [ids, lines]
    csvCalls,             \* sink side: attempt id -> number of CSV POSTs that carried it
    csvStored,            \* sink side: attempt ids the CSV endpoint accepted
    inputChangeTimers,    \* Map fieldKey -> timer handle
    inputChangeValues,    \* Map fieldKey -> [value, fieldName]
    timers,               \* browser timer table: the live handles <<fieldKey, i>> -> TRUE
    fieldValue,           \* DOM: element -> its current value
    nextId,               \* number of the next record (stands for Date.now() + random)
    failures,             \* number of failed delivery calls so far
    sessionId,            \* UserInteractionLogger.sessionId
    userId,               \* UserInteractionLogger.userId
    now,                  \* Date.now(), in milliseconds since the page was loaded
    idText,               \* record number -> the id string logInteraction generated for it
    scrollTimeout,        \* let scrollTimeout of the scroll listener: a timer handle
    resizeTimeout,        \* let resizeTimeout of the resize listener: a timer handle
    timeouts,             \* the pending scroll and resize timers: handle -> time it is due
    lastEventAt,          \* history: when the last scroll and the last resize event came
    form,                 \* the controls of the page's form: value and checked
    viewerLogs,           \* LogViewer: logs, newest first as the component keeps them
    viewerLoading,        \* LogViewer: loading
    connectionStatus,     \* LogViewer: connectionStatus
    pageLogs,             \* LogsViewer page: logs
    pageLoading,          \* LogsViewer page: loading
    pageError,            \* LogsViewer page: error
    serverLogs,           \* backend: the stored records, by number
    wiped,                \* history: the records a reset has cleared from the store
    socketQueue,          \* push channel: the messages on their way to the LogViewer
    nextStored,           \* number of the next record the backend stores
    requests,             \* the HTTP requests of the two viewers that are in flight
    nextReq,              \* number of the next HTTP request
    lastOp                \* the handler that ran last, and what it was given

loggerVars == <<logQueue, inflight, jsonCalls, csvBuffer, csvInflight, csvCalls, nextId>>
configVars == <<isEnabled, logSystemNoise, strictBusinessAPIFiltering, flushTimer>>
sinkVars == <<jsonStored, csvStored, failures>>
debounceVars == <<inputChangeTimers, inputChangeValues, timers>>
identityVars == <<sessionId, userId>>
clockVars == <<now, idText>>
throttleVars == <<scrollTimeout, resizeTimeout, timeouts, lastEventAt>>
\* what the logger's own methods neither read nor write
\* the parts of the page that have no timer
dashVars == <<viewerLogs, viewerLoading, connectionStatus>>
listVars == <<pageLogs, pageLoading, pageError>>
serverVars == <<serverLogs, wiped, socketQueue, nextStored>>
httpVars == <<requests, nextReq>>
viewerVars == <<dashVars, listVars, serverVars, httpVars>>
pageVars == <<form, viewerVars>>
outerVars == <<clockVars, throttleVars, pageVars>>
\* what no step of batching, delivery, input capture and configuration writes
restVars == <<identityVars, outerVars>>
vars == <<isEnabled, logSystemNoise, strictBusinessAPIFiltering, logQueue, flushTimer,
          inflight, jsonCalls, jsonStored, csvBuffer, csvInflight, csvCalls, csvStored,
          inputChangeTimers, inputChangeValues, timers, fieldValue, nextId, failures,
          lastOp, restVars>>

(***************************************************************************)
(* Bounds of the model.                                                    *)
(***************************************************************************)
\* records the delivery specification (Spec) logs
MaxRecords == 4
\* records the batching specification (SpecBatch) logs: past the batch size
MaxBatch == 11
\* POSTs to /api/logs pending when the batching specification's timer flushes
MaxPending == 1
\* records the capture specification logs
MaxCapture == 3
\* number of the last record the classification specification logs
MaxNoise == 2
\* number of the last record the repeated-call specification logs
MaxProbe == 3
\* number of the last record the lifecycle specification logs
MaxLife == 3
\* number of the last record the throttle specification logs
MaxThrottle == 3
\* number of the last record the backend stores in the viewer specification
MaxStored == 2
\* number of the last HTTP request the viewers send
MaxRequests == 2
\* the push channel holds at most this many messages
MaxSocket == 2
\* number of the last record the form specification logs
MaxForm == 3
\* number of the last record the id specification logs
MaxIds == 4
\* the clock stops here, in milliseconds
MaxNow == 200
\* the delay of the scroll and resize timers, in milliseconds
ThrottleDelay == 100
\* the clock advances in steps of this many milliseconds
TickMs == ThrottleDelay \div 2
\* failed delivery calls (JSON and CSV together)
MaxFailures == 2
\* number of the last record the CSV specification logs
MaxCsv == 4
\* number of the last record logged while the backend keeps failing
MaxGrow == 21
\* failed delivery calls while the backend keeps failing
MaxGrowFailures == 24

(***************************************************************************)
(* Program constants.                                                      *)
(***************************************************************************)
batchSize == 10
bufferSize == 10
MaxInputValueLen == 100

(***************************************************************************)
(* JavaScript helpers.                                                     *)
(***************************************************************************)
Has(d, k) == k \in DOMAIN d

\* String.prototype.includes
Includes(s, p) ==
    \E i \in 1..(Len(s) - Len(p) + 1) : SubSeq(s, i, i + Len(p) - 1) = p

\* String.prototype.substring(0, n)
Substring0(s, n) == IF Len(s) <= n THEN s ELSE SubSeq(s, 1, n)

Digit(n) == SubSeq("0123456789", n + 1, n + 1)

RECURSIVE ToStr(_)
\* Number.prototype.toString for a natural number
ToStr(n) == IF n < 10 THEN Digit(n) ELSE ToStr(n \div 10) \o Digit(n % 10)

RECURSIVE Join(_, _)
\* Array.prototype.join
Join(ss, sep) ==
    IF ss = <<>> THEN ""
    ELSE IF Len(ss) = 1 THEN ss[1]
    ELSE ss[1] \o sep \o Join(Tail(ss), sep)

RECURSIVE Repeat(_, _)
\* String.prototype.repeat
Repeat(s, n) == IF n = 0 THEN "" ELSE s \o Repeat(s, n - 1)

Range(f) == {f[x] : x \in DOMAIN f}

Ids(s) == {s[i].id : i \in DOMAIN s}

IdSeq(s) == [i \in DOMAIN s |-> s[i].id]

\* lastOp: the handler, the field key or event it was given, the ids of its snapshot
NoOp == [op |-> "init", key |-> "", snap |-> <<>>]
Op(o, k) == [op |-> o, key |-> k, snap |-> <<>>]
OpOn(o, s) == [op |-> o, key |-> "", snap |-> IdSeq(s)]
\* a call of logInteraction(event, details)
OpCall(event, details) == [op |-> "log", key |-> event, snap |-> <<>>, details |-> details]
\* a listener's step on a field key; snap tells whether it found a timer pending
OpField(o, k, pending) == [op |-> o, key |-> k, snap |-> IF pending THEN <<1>> ELSE <<>>]

(***************************************************************************)
(* JavaScript values.  An object (details, a record) is a function from    *)
(* its keys; an absent key reads as Undefined.                             *)
(***************************************************************************)
Undefined == "undefined"

Get(d, k) == IF Has(d, k) THEN d[k] ELSE Undefined

\* truthiness of a string-or-undefined value
Truthy(v) == v # Undefined /\ v # ""

\* a || b for string-or-undefined values
Or2(a, b) == IF Truthy(a) THEN a ELSE b

Or3(a, b, c) == Or2(a, Or2(b, c))

RECURSIVE TrimStart(_)
TrimStart(s) ==
    IF Len(s) > 0 /\ SubSeq(s, 1, 1) = " " THEN TrimStart(SubSeq(s, 2, Len(s))) ELSE s

RECURSIVE TrimEnd(_)
TrimEnd(s) ==
    IF Len(s) > 0 /\ SubSeq(s, Len(s), Len(s)) = " " THEN TrimEnd(SubSeq(s, 1, Len(s) - 1))
    ELSE s

\* String.prototype.trim
Trim(s) == TrimEnd(TrimStart(s))

\* Boolean.prototype.toString
BoolStr(b) == IF b THEN "true" ELSE "false"

(***************************************************************************)
(* The form of the page: form.elements in document order.                  *)
(***************************************************************************)
FormControls == <<"f_user", "f_cash", "f_card", "f_note">>

FormAttr(c) ==
    CASE c = "f_user" -> [name |-> "username", id |-> "username", tagName |-> "INPUT",
                          type |-> "text", required |-> TRUE]
      [] c = "f_cash" -> [name |-> "payment", id |-> "pay-cash", tagName |-> "INPUT",
                          type |-> "radio", required |-> FALSE]
      [] c = "f_card" -> [name |-> "payment", id |-> "pay-card", tagName |-> "INPUT",
                          type |-> "radio", required |-> FALSE]
      [] c = "f_note" -> [name |-> "", id |-> "note", tagName |-> "TEXTAREA",
                          type |-> "textarea", required |-> FALSE]

\* String.prototype.toLowerCase of a tag name
TagLower(t) ==
    CASE t = "INPUT" -> "input"
      [] t = "TEXTAREA" -> "textarea"
      [] t = "SELECT" -> "select"

\* el.name || el.id || el.tagName.toLowerCase()
formFieldName(c) == Or3(FormAttr(c).name, FormAttr(c).id, TagLower(FormAttr(c).tagName))

\* the keys of a field presence map in the order they were first assigned
PresenceKeys ==
    SelectSeq([i \in DOMAIN FormControls |->
                  IF \E j \in 1..(i - 1) : formFieldName(FormControls[j]) = formFieldName(FormControls[i])
                  THEN "" ELSE formFieldName(FormControls[i])],
              LAMBDA n : n # "")

\* JSON.stringify of a field presence map
JsonPresence(m) ==
    LET present == SelectSeq(PresenceKeys, LAMBDA n : n \in DOMAIN m)
    IN  "{" \o Join([i \in DOMAIN present |->
                        "\"" \o present[i] \o "\":" \o BoolStr(m[present[i]])], ",") \o "}"

\* JSON.stringify of formElements
JsonElements(els) ==
    "[" \o Join([i \in DOMAIN els |->
                    "{\"name\":\"" \o els[i].name \o "\",\"type\":\"" \o els[i].type
                      \o "\",\"required\":" \o BoolStr(els[i].required) \o "}"], ",") \o "]"

\* the keys of details whose values are numbers; every other value is a string
NumberKeys ==
    {"finalValueLength", "statusCode", "scrollX", "scrollY", "scrollHeight", "clientHeight",
     "innerWidth", "innerHeight", "outerWidth", "outerHeight"}

\* the order in which JSON.stringify writes the keys of a details object
KeyOrder ==
    <<"trigger", "formId", "formAction", "formMethod", "formElements", "field_presence_map",
      "buttonText", "buttonId", "username", "password", "method", "url",
      "statusCode", "inputName", "inputType", "inputValue", "inputId",
      "finalValueLength", "scrollX", "scrollY", "scrollHeight", "clientHeight",
      "innerWidth", "innerHeight", "outerWidth", "outerHeight", "component",
      "schema_version">>

JsonMember(d, k) ==
    "\"" \o k \o "\":" \o (IF k \in NumberKeys THEN ToStr(d[k])
                         ELSE IF k = "field_presence_map" THEN JsonPresence(d[k])
                         ELSE IF k = "formElements" THEN JsonElements(d[k])
                         ELSE "\"" \o d[k] \o "\"")

\* JSON.stringify of a details object
JSONstringify(d) ==
    LET present == SelectSeq(KeyOrder, LAMBDA k : Has(d, k))
    IN  "{" \o Join([i \in DOMAIN present |-> JsonMember(d, present[i])], ",") \o "}"

(***************************************************************************)
(* The noise classifier.                                                   *)
(***************************************************************************)
Verdict(n, r) == [isNoise |-> n, reason |-> r]

UrlIncludes(details, p) == Has(details, "url") /\ Includes(details.url, p)

\* a classifier that looks at the URL before the method, the status and the trigger
isSystemNoiseUrlFirst(event, details) ==
    IF event = "http_request" /\ UrlIncludes(details, "/favicon")
      THEN Verdict(TRUE, "favicon_request")
    ELSE IF event = "http_request" /\ UrlIncludes(details, "/health")
      THEN Verdict(TRUE, "health_check")
    ELSE IF event = "http_request" /\ UrlIncludes(details, "/api/logs")
      THEN Verdict(TRUE, "logging_endpoint")
    ELSE IF event = "http_request" /\ UrlIncludes(details, "/socket.io")
      THEN Verdict(TRUE, "websocket_connection")
    ELSE IF event = "http_request" /\ Get(details, "method") = "OPTIONS"
      THEN Verdict(TRUE, "cors_preflight")
    ELSE IF event = "navigation" /\ Has(details, "statusCode") /\ details.statusCode = 308
      THEN Verdict(TRUE, "permanent_redirect")
    ELSE IF event = "navigation" /\ Has(details, "statusCode") /\ details.statusCode = 301
      THEN Verdict(TRUE, "moved_permanently")
    ELSE IF event = "navigation" /\ Has(details, "statusCode") /\ details.statusCode = 302
      THEN Verdict(TRUE, "temporary_redirect")
    ELSE IF event = "http_request" /\ Get(details, "trigger") = "browser"
      THEN Verdict(TRUE, "browser_initiated")
    ELSE Verdict(FALSE, Undefined)

isSystemNoise(event, details) ==
    IF event = "http_request" /\ Get(details, "method") = "OPTIONS"
      THEN Verdict(TRUE, "cors_preflight")
    ELSE IF event = "navigation" /\ Has(details, "statusCode") /\ details.statusCode = 308
      THEN Verdict(TRUE, "permanent_redirect")
    ELSE IF event = "navigation" /\ Has(details, "statusCode") /\ details.statusCode = 301
      THEN Verdict(TRUE, "moved_permanently")
    ELSE IF event = "navigation" /\ Has(details, "statusCode") /\ details.statusCode = 302
      THEN Verdict(TRUE, "temporary_redirect")
    ELSE IF event = "http_request" /\ Get(details, "trigger") = "browser"
      THEN Verdict(TRUE, "browser_initiated")
    ELSE IF event = "http_request" /\ UrlIncludes(details, "/favicon")
      THEN Verdict(TRUE, "favicon_request")
    ELSE IF event = "http_request" /\ UrlIncludes(details, "/health")
      THEN Verdict(TRUE, "health_check")
    ELSE IF event = "http_request" /\ UrlIncludes(details, "/api/logs")
      THEN Verdict(TRUE, "logging_endpoint")
    ELSE IF event = "http_request" /\ UrlIncludes(details, "/api/logs/stats")
      THEN Verdict(TRUE, "logging_stats")
    ELSE IF event = "http_request" /\ UrlIncludes(details, "/socket.io")
      THEN Verdict(TRUE, "websocket_connection")
    ELSE Verdict(FALSE, Undefined)

businessEndpoints ==
    {"/api/customer/", "/api/customer/login", "/api/customer/register",
     "/api/customer/orders", "/api/customer/profile", "/api/customer/balance",
     "/api/restaurant/", "/api/restaurant/login", "/api/restaurant/register",
     "/api/restaurant/orders", "/api/restaurant/menu", "/api/restaurant/profile",
     "/api/restaurant_details/", "/api/restaurant_details/nearby",
     "/api/orders/", "/api/orders/create", "/api/orders/update", "/api/orders/status",
     "/api/menu/", "/api/menu/items", "/api/menu/categories",
     "/api/payment/", "/api/payment/process", "/api/payment/status",
     "/api/delivery/", "/api/delivery/status", "/api/delivery/track",
     "/api/user/", "/api/user/profile", "/api/user/settings",
     "/api/search/", "/api/search/restaurants", "/api/search/menu",
     "/api/reviews/", "/api/reviews/submit", "/api/reviews/list"}

\* an allow-list test that wants the URL to be one of the listed strings
isBusinessAPIExact(url) == url \in businessEndpoints

isBusinessAPI(url) == \E endpoint \in businessEndpoints : Includes(url, endpoint)

\* a classifier that reads the flush timer
isSystemNoiseEnhancedByTimer(event, details, strict) ==
    LET basicNoise == isSystemNoise(event, details)
    IN  IF basicNoise.isNoise THEN basicNoise
        ELSE IF ~flushTimer THEN Verdict(TRUE, "timer_stopped")
        ELSE IF strict /\ event = "http_request" /\ Truthy(Get(details, "url"))
                /\ ~isBusinessAPI(details.url)
          THEN Verdict(TRUE, "non_business_api")
        ELSE Verdict(FALSE, Undefined)

\* a strict rule that also rejects a request without a url
isSystemNoiseEnhancedNeedsUrl(event, details, strict) ==
    LET basicNoise == isSystemNoise(event, details)
    IN  IF basicNoise.isNoise THEN basicNoise
        ELSE IF strict /\ event = "http_request"
                /\ ~(Truthy(Get(details, "url")) /\ isBusinessAPI(details.url))
          THEN Verdict(TRUE, "non_business_api")
        ELSE Verdict(FALSE, Undefined)

isSystemNoiseEnhanced(event, details, strict) ==
    LET basicNoise == isSystemNoise(event, details)
    IN  IF basicNoise.isNoise THEN basicNoise
        ELSE IF strict /\ event = "http_request" /\ Truthy(Get(details, "url"))
                /\ ~isBusinessAPI(details.url)
          THEN Verdict(TRUE, "non_business_api")
        ELSE Verdict(FALSE, Undefined)

(***************************************************************************)
(* The page: the form controls the listeners see.  An element has the      *)
(* attributes the logger reads; its value is state (fieldValue).           *)
(***************************************************************************)
Elements == {"e_user", "e_pass", "e_anon"}

\* a second control without id and name, same tag and type as e_anon
AnonFields == {"e_anon", "e_anon2"}

AllElements == Elements \cup AnonFields

\* document order, as querySelector walks it
DomOrder == <<"e_user", "e_pass", "e_anon", "e_anon2">>

Attr(e) ==
    CASE e = "e_user" -> [id |-> "username", name |-> "username", tagName |-> "INPUT", type |-> "text"]
      [] e = "e_pass" -> [id |-> "", name |-> "password", tagName |-> "INPUT", type |-> "password"]
      [] e = "e_anon" -> [id |-> "", name |-> "", tagName |-> "INPUT", type |-> "text"]
      [] e = "e_anon2" -> [id |-> "", name |-> "", tagName |-> "INPUT", type |-> "text"]

\* a value one character longer than the logger keeps
LongValue == Repeat("a", MaxInputValueLen + 1)

\* what a user types into an element
InputValues(e) ==
    CASE e = "e_user" -> {"bob", LongValue}
      [] e = "e_pass" -> {"hunter2"}
      [] e = "e_anon" -> {"x"}
      [] e = "e_anon2" -> {"y"}

Null == "null"

\* `${target.id || target.name || target.tagName}_${target.type}`
fieldKey(e) == Or3(Attr(e).id, Attr(e).name, Attr(e).tagName) \o "_" \o Attr(e).type

\* target.name || target.id || target.tagName
fieldNameOf(e) == Or3(Attr(e).name, Attr(e).id, Attr(e).tagName)

\* document.querySelector(`[name="${fieldName}"], [id="${fieldName}"]`)
querySelector(fieldName) ==
    LET hits == SelectSeq(DomOrder, LAMBDA e : Attr(e).name = fieldName \/ Attr(e).id = fieldName)
    IN  IF hits = <<>> THEN Null ELSE hits[1]

FieldKeys == {fieldKey(e) : e \in Elements}

(***************************************************************************)
(* Records.                                                                *)
(***************************************************************************)
\* what generateSessionId returned to the constructor
SessionId == "session_1"
Route == "/login"
Timestamp == "2025-01-01T00:00:00.000Z"

\* details.<k>?.length || 0
LengthOf(details, k) == IF Has(details, k) THEN Len(details[k]) ELSE 0

\* the UserInteraction object literal of logInteraction
makeInteraction(n, event, details, noiseCheck, uid) ==
    [id |-> n,
     timestamp |-> Timestamp,
     event_name |-> event,
     attempt_id |-> n,
     session_id |-> sessionId,
     browser_id |-> Or2(uid, "anonymous"),
     route |-> Route,
     submit_trigger |-> Or2(Get(details, "trigger"), "unknown"),
     username_length |-> LengthOf(details, "username"),
     password_length |-> LengthOf(details, "password"),
     schema_version |-> Or2(Get(details, "schema_version"), "frontend.v1"),
     inputName |-> Get(details, "inputName"),
     inputType |-> Get(details, "inputType"),
     inputValue |-> Get(details, "inputValue"),
     inputId |-> Get(details, "inputId"),
     finalValueLength |-> Get(details, "finalValueLength"),
     system_noise |-> noiseCheck.isNoise,
     noise_reason |-> noiseCheck.reason,
     component |-> Or2(Get(details, "component"), "unknown"),
     userId |-> uid,
     field_presence_map |-> Get(details, "field_presence_map"),
     details |-> details]

(***************************************************************************)
(* CSVLogger.                                                              *)
(***************************************************************************)
csvHeaders ==
    <<"timestamp", "event", "session_id", "route", "method", "status_code", "user_id",
      "ip_address", "component", "action", "browser_id", "attempt_id", "details">>

formatToCSVEntry(data) ==
    [timestamp |-> Or2(Get(data, "timestamp"), Timestamp),
     event |-> Or3(Get(data, "event"), Get(data, "action"), "unknown"),
     session_id |-> Or3(Get(data, "session_id"), Get(data, "sessionId"), "unknown"),
     route |-> Or3(Get(data, "route"), Get(data, "url"), "unknown"),
     method |-> Or3(Get(data.details, "method"), Get(data, "method"), ""),
     status_code |-> Or3(Get(data.details, "status_code"), Get(data, "status_code"), ""),
     user_id |-> Or2(Get(data.details, "user_id"), Or3(Get(data, "userId"), Get(data, "browser_id"), "")),
     ip_address |-> Or3(Get(data.details, "ip_address"), Get(data, "ip_address"), ""),
     component |-> Or3(Get(data, "component"), Get(data.details, "component"), ""),
     action |-> Or3(Get(data, "action"), Get(data, "event"), ""),
     browser_id |-> Or3(Get(data, "browser_id"), Get(data, "userId"), ""),
     attempt_id |-> data.attempt_id,
     details |-> JSONstringify(data.details)]

\* entry[header] || '' (attempt_id is the one column that is not a string here)
csvField(entry, header) ==
    IF header = "attempt_id" THEN "log_" \o ToStr(entry.attempt_id) ELSE Or2(entry[header], "")

\* one line of csvData in flush
csvLine(entry) == Join([i \in DOMAIN csvHeaders |-> csvField(entry, csvHeaders[i])], ",")

Bump(f, S) ==
    [i \in (DOMAIN f) \cup S |->
        (IF i \in DOMAIN f THEN f[i] ELSE 0) + (IF i \in S THEN 1 ELSE 0)]

Count(f, i) == IF i \in DOMAIN f THEN f[i] ELSE 0

\* CSVLogger.flush up to its await: the request it starts
csvFlushStart(cb, ci, cc) ==
    IF cb = <<>> THEN [cb |-> cb, ci |-> ci, cc |-> cc]
    ELSE LET sent == {cb[i].attempt_id : i \in DOMAIN cb}
         IN  [cb |-> cb,
              ci |-> ci \cup {[ids |-> sent, lines |-> [i \in DOMAIN cb |-> csvLine(cb[i])]]},
              cc |-> Bump(cc, sent)]

logToCSV(cb, ci, cc, data) ==
    LET cb1 == Append(cb, formatToCSVEntry(data))
    IN  IF Len(cb1) >= bufferSize THEN csvFlushStart(cb1, ci, cc)
        ELSE [cb |-> cb1, ci |-> ci, cc |-> cc]

(***************************************************************************)
(* UserInteractionLogger: flushLogs and logInteraction.                    *)
(***************************************************************************)
\* a flush that starts the POST and leaves the live queue as it is
flushStartKeepsQueue(q, infl, jc) ==
    IF Len(q) = 0 THEN [q |-> q, infl |-> infl, jc |-> jc]
    ELSE [q |-> q, infl |-> infl \cup {q}, jc |-> Bump(jc, Ids(q))]

\* a flush that sends full batches only
flushStartFullOnly(q, infl, jc) ==
    IF Len(q) < batchSize THEN [q |-> q, infl |-> infl, jc |-> jc]
    ELSE [q |-> <<>>, infl |-> infl \cup {q}, jc |-> Bump(jc, Ids(q))]

\* flushLogs up to its await: snapshot, clear, start the POST
flushStart(q, infl, jc) ==
    IF Len(q) = 0 THEN [q |-> q, infl |-> infl, jc |-> jc]
    ELSE [q |-> <<>>, infl |-> infl \cup {q}, jc |-> Bump(jc, Ids(q))]

\* a queue-full test that is off by one
queueFullLate(q) == Len(q) > batchSize

\* the queue-full test of logInteraction
queueFull(q) == Len(q) >= batchSize

\* a logInteraction without the toggle: noise is always dropped
logInteractionOnDropsNoise(st, enabled, logNoise, strict, uid, event, details) ==
    LET noiseCheck == isSystemNoiseEnhanced(event, details, strict)
    IN  IF ~enabled THEN st
        ELSE IF noiseCheck.isNoise THEN st
        ELSE LET interaction == makeInteraction(st.n, event, details, noiseCheck, uid)
                 q1 == Append(st.q, interaction)
                 csv == logToCSV(st.cb, st.ci, st.cc, interaction)
                 json == IF queueFull(q1) THEN flushStart(q1, st.infl, st.jc)
                         ELSE [q |-> q1, infl |-> st.infl, jc |-> st.jc]
             IN  [q |-> json.q, infl |-> json.infl, jc |-> json.jc,
                  cb |-> csv.cb, ci |-> csv.ci, cc |-> csv.cc, n |-> st.n + 1]

\* a logInteraction that does not look at the switch
logInteractionOnIgnoresSwitch(st, enabled, logNoise, strict, uid, event, details) ==
    LET noiseCheck == isSystemNoiseEnhanced(event, details, strict)
    IN  IF noiseCheck.isNoise /\ ~logNoise THEN st
        ELSE LET interaction == makeInteraction(st.n, event, details, noiseCheck, uid)
                 q1 == Append(st.q, interaction)
                 csv == logToCSV(st.cb, st.ci, st.cc, interaction)
                 json == IF queueFull(q1) THEN flushStart(q1, st.infl, st.jc)
                         ELSE [q |-> q1, infl |-> st.infl, jc |-> st.jc]
             IN  [q |-> json.q, infl |-> json.infl, jc |-> json.jc,
                  cb |-> csv.cb, ci |-> csv.ci, cc |-> csv.cc, n |-> st.n + 1]

\* the logger's state as a value: st.q, st.infl, st.jc (JSON), st.cb, st.ci, st.cc (CSV), st.n
logInteractionOn(st, enabled, logNoise, strict, uid, event, details) ==
    LET noiseCheck == isSystemNoiseEnhanced(event, details, strict)
    IN  IF ~enabled THEN st
        ELSE IF noiseCheck.isNoise /\ ~logNoise THEN st
        ELSE LET interaction == makeInteraction(st.n, event, details, noiseCheck, uid)
                 q1 == Append(st.q, interaction)
                 csv == logToCSV(st.cb, st.ci, st.cc, interaction)
                 json == IF queueFull(q1) THEN flushStart(q1, st.infl, st.jc)
                         ELSE [q |-> q1, infl |-> st.infl, jc |-> st.jc]
             IN  [q |-> json.q, infl |-> json.infl, jc |-> json.jc,
                  cb |-> csv.cb, ci |-> csv.ci, cc |-> csv.cc, n |-> st.n + 1]

Now == [q |-> logQueue, infl |-> inflight, jc |-> jsonCalls,
        cb |-> csvBuffer, ci |-> csvInflight, cc |-> csvCalls, n |-> nextId]

SetLogger(st) ==
    /\ logQueue' = st.q
    /\ inflight' = st.infl
    /\ jsonCalls' = st.jc
    /\ csvBuffer' = st.cb
    /\ csvInflight' = st.ci
    /\ csvCalls' = st.cc
    /\ nextId' = st.n

logInteraction(event, details) ==
    SetLogger(logInteractionOn(Now, isEnabled, logSystemNoise, strictBusinessAPIFiltering,
                               userId, event, details))

(***************************************************************************)
(* Maps (Map<string, ...>) as functions on the keys present.               *)
(***************************************************************************)
EmptyMap == [x \in {} |-> 0]

Put(f, k, v) == [x \in (DOMAIN f) \cup {k} |-> IF x = k THEN v ELSE f[x]]

Del(f, k) == [x \in (DOMAIN f) \ {k} |-> f[x]]

\* setTimeout returns a handle that no live timer has and that the map does not
\* remember: <<k, i>> is the i-th such handle for the callback of key k
FreshHandle(k) ==
    LET used == (DOMAIN timers) \cup Range(inputChangeTimers)
        i == CHOOSE j \in 1..(Cardinality(used) + 1) :
                 /\ <<k, j>> \notin used
                 /\ \A g \in 1..(j - 1) : <<k, g>> \in used
    IN  <<k, i>>

\* a blur that forgets the handle and leaves the timer running
ClearTimerOfForgetsOnly(k) == timers

\* clearTimeout(this.inputChangeTimers.get(fieldKey)) when the map has the key
ClearTimerOf(k) == IF Has(inputChangeTimers, k) THEN Del(timers, inputChangeTimers[k]) ELSE timers

\* `log_${Date.now()}_${Math.random().toString(36).substr(2, 9)}`
generateId(t, rnd) == "log_" \o ToStr(t) \o "_" \o rnd

\* a timer variable that was declared and never assigned
NoTimer == <<>>

\* setTimeout for the scroll or the resize callback: <<k, i>> is the i-th handle that
\* no live timer has and that neither listener remembers
FreshTimeout(k) ==
    LET used == (DOMAIN timeouts) \cup {scrollTimeout, resizeTimeout}
        i == CHOOSE j \in 1..(Cardinality(used) + 1) :
                 /\ <<k, j>> \notin used
                 /\ \A g \in 1..(j - 1) : <<k, g>> \in used
    IN  <<k, i>>

\* what Math.random().toString(36).substr(2, 9) returns
Randoms == {"k3x9q0a1z", "p7m2c4v8b"}

(***************************************************************************)
(* Initial state: the state the constructor leaves.  startAutoFlush has    *)
(* started the interval and setupGlobalListeners has logged the first page *)
(* view.                                                                   *)
(***************************************************************************)
PageViewDetails == [trigger |-> "navigation", schema_version |-> "page_view.v1"]

Constructed ==
    logInteractionOn([q |-> <<>>, infl |-> {}, jc |-> EmptyMap,
                      cb |-> <<>>, ci |-> {}, cc |-> EmptyMap, n |-> 1],
                     TRUE, TRUE, TRUE, Undefined, "page_view", PageViewDetails)

Init ==
    /\ sessionId = SessionId
    /\ userId = Undefined
    /\ now = 0
    /\ idText = Put(EmptyMap, 1, generateId(0, "k3x9q0a1z"))
    /\ scrollTimeout = NoTimer
    /\ resizeTimeout = NoTimer
    /\ timeouts = EmptyMap
    /\ lastEventAt = [scroll |-> 0, resize |-> 0]
    /\ form = [c \in Range(FormControls) |-> [value |-> "", checked |-> FALSE]]
    /\ viewerLogs = <<>>
    /\ viewerLoading = FALSE
    /\ connectionStatus = "connecting"
    /\ pageLogs = <<>>
    /\ pageLoading = FALSE
    /\ pageError = Null
    /\ serverLogs = <<>>
    /\ wiped = {}
    /\ socketQueue = <<>>
    /\ nextStored = 1
    /\ requests = {}
    /\ nextReq = 1
    /\ isEnabled = TRUE
    /\ logSystemNoise = TRUE
    /\ strictBusinessAPIFiltering = TRUE
    /\ flushTimer = TRUE
    /\ logQueue = Constructed.q
    /\ inflight = Constructed.infl
    /\ jsonCalls = Constructed.jc
    /\ csvBuffer = Constructed.cb
    /\ csvInflight = Constructed.ci
    /\ csvCalls = Constructed.cc
    /\ nextId = Constructed.n
    /\ jsonStored = {}
    /\ csvStored = {}
    /\ inputChangeTimers = EmptyMap
    /\ inputChangeValues = EmptyMap
    /\ timers = EmptyMap
    /\ fieldValue = [e \in AllElements |-> ""]
    /\ failures = 0
    /\ lastOp = NoOp

(***************************************************************************)
(* Batching and delivery.                                                  *)
(***************************************************************************)
ButtonClickDetails ==
    [trigger |-> "click", buttonText |-> "Order", buttonId |-> "order-btn",
     schema_version |-> "button_click.v1"]

\* logButtonClick('Order', 'order-btn')
LogButtonClick(bound) ==
    /\ nextId <= bound
    /\ logInteraction("button_click", ButtonClickDetails)
    /\ lastOp' = Op("log", "button_click")
    /\ UNCHANGED <<configVars, restVars, sinkVars, debounceVars, fieldValue>>

\* the setInterval callback of startAutoFlush: flushLogs()
AutoFlush ==
    /\ flushTimer
    /\ LET f == flushStart(logQueue, inflight, jsonCalls)
       IN  /\ logQueue' = f.q
           /\ inflight' = f.infl
           /\ jsonCalls' = f.jc
    /\ lastOp' = OpOn("flush", logQueue)
    /\ UNCHANGED <<csvBuffer, csvInflight, csvCalls, nextId, configVars, restVars, sinkVars,
                   debounceVars, fieldValue>>

\* a success path that empties the live queue, as CSVLogger.flush empties its buffer
FetchOkClearsQueue(logsToSend) ==
    /\ logsToSend \in inflight
    /\ inflight' = inflight \ {logsToSend}
    /\ logQueue' = <<>>
    /\ jsonStored' = jsonStored \cup Ids(logsToSend)
    /\ lastOp' = OpOn("fetch_ok", logsToSend)
    /\ UNCHANGED <<jsonCalls, csvBuffer, csvInflight, csvCalls, nextId, configVars, restVars,
                   csvStored, failures, debounceVars, fieldValue>>

\* a success path that puts the snapshot back as the failure path does
FetchOkRequeues(logsToSend) ==
    /\ logsToSend \in inflight
    /\ inflight' = inflight \ {logsToSend}
    /\ logQueue' = logsToSend \o logQueue
    /\ jsonStored' = jsonStored \cup Ids(logsToSend)
    /\ lastOp' = OpOn("fetch_ok", logsToSend)
    /\ UNCHANGED <<jsonCalls, csvBuffer, csvInflight, csvCalls, nextId, configVars, restVars,
                   csvStored, failures, debounceVars, fieldValue>>

\* flushLogs after its await, response.ok
FetchOk(logsToSend) ==
    /\ logsToSend \in inflight
    /\ inflight' = inflight \ {logsToSend}
    /\ jsonStored' = jsonStored \cup Ids(logsToSend)
    /\ lastOp' = OpOn("fetch_ok", logsToSend)
    /\ UNCHANGED <<logQueue, jsonCalls, csvBuffer, csvInflight, csvCalls, nextId, configVars, restVars,
                   csvStored, failures, debounceVars, fieldValue>>

\* a re-queue that pushes the failed snapshot to the back
requeueAtBack(q, logsToSend) == q \o logsToSend

\* this.logQueue.unshift(...logsToSend)
requeue(q, logsToSend) == logsToSend \o q

\* flushLogs after its await, !response.ok or a thrown transport error; the model
\* looks at no more than cap failed calls
FetchFailWithin(logsToSend, cap) ==
    /\ logsToSend \in inflight
    /\ failures < cap
    /\ inflight' = inflight \ {logsToSend}
    /\ logQueue' = requeue(logQueue, logsToSend)
    /\ failures' = failures + 1
    /\ lastOp' = OpOn("fetch_fail", logsToSend)
    /\ UNCHANGED <<jsonCalls, csvBuffer, csvInflight, csvCalls, nextId, configVars, restVars,
                   jsonStored, csvStored, debounceVars, fieldValue>>

FetchFail(logsToSend) == FetchFailWithin(logsToSend, MaxFailures)

\* CSVLogger.flush after its await, sendCSVLogs resolved: this.csvBuffer = []
CsvOk(req) ==
    /\ req \in csvInflight
    /\ csvInflight' = csvInflight \ {req}
    /\ csvBuffer' = <<>>
    /\ csvStored' = csvStored \cup req.ids
    /\ lastOp' = Op("csv_ok", "")
    /\ UNCHANGED <<logQueue, inflight, jsonCalls, csvCalls, nextId, configVars, restVars,
                   jsonStored, failures, debounceVars, fieldValue>>

\* a catch block that gives the buffer up
CsvFailDropsBuffer(req) ==
    /\ req \in csvInflight
    /\ failures < MaxFailures
    /\ csvInflight' = csvInflight \ {req}
    /\ csvBuffer' = <<>>
    /\ failures' = failures + 1
    /\ lastOp' = Op("csv_fail", "")
    /\ UNCHANGED <<logQueue, inflight, jsonCalls, csvCalls, nextId, configVars, restVars,
                   jsonStored, csvStored, debounceVars, fieldValue>>

\* CSVLogger.flush after its await, sendCSVLogs threw: console.error only; the model
\* looks at no more than cap failed calls
CsvFailWithin(req, cap) ==
    /\ req \in csvInflight
    /\ failures < cap
    /\ csvInflight' = csvInflight \ {req}
    /\ failures' = failures + 1
    /\ lastOp' = Op("csv_fail", "")
    /\ UNCHANGED <<logQueue, inflight, jsonCalls, csvBuffer, csvCalls, nextId, configVars, restVars,
                   jsonStored, csvStored, debounceVars, fieldValue>>

CsvFail(req) == CsvFailWithin(req, MaxFailures)

clearQueue ==
    /\ logQueue' = <<>>
    /\ lastOp' = Op("clearQueue", "")
    /\ UNCHANGED <<inflight, jsonCalls, csvBuffer, csvInflight, csvCalls, nextId, configVars, restVars,
                   sinkVars, debounceVars, fieldValue>>

stopAutoFlush ==
    /\ flushTimer' = FALSE
    /\ lastOp' = Op("stopAutoFlush", "")
    /\ UNCHANGED <<loggerVars, isEnabled, logSystemNoise, strictBusinessAPIFiltering,
                   sinkVars, debounceVars, fieldValue, restVars>>

Next ==
    \/ LogButtonClick(MaxRecords)
    \/ AutoFlush
    \/ \E logsToSend \in inflight : FetchOk(logsToSend)
    \/ \E logsToSend \in inflight : FetchFail(logsToSend)
    \/ clearQueue
    \/ stopAutoFlush

\* logging, flushing and the delivery outcomes, a few records
Spec == Init /\ [][Next]_vars

\* setInterval keeps calling back while the interval is not cleared
SpecLive == Init /\ [][Next]_vars /\ WF_vars(AutoFlush)

\* the same while nobody stops the flush timer
NextRetry ==
    \/ LogButtonClick(MaxRecords)
    \/ AutoFlush
    \/ \E logsToSend \in inflight : FetchOk(logsToSend)
    \/ \E logsToSend \in inflight : FetchFail(logsToSend)
    \/ clearQueue

\* the interval keeps calling back, and every POST that does not fail is answered; after
\* MaxFailures failed calls every delivery call succeeds
SpecRetry ==
    /\ Init
    /\ [][NextRetry]_vars
    /\ WF_vars(AutoFlush)
    /\ WF_vars(\E logsToSend \in inflight : FetchOk(logsToSend))

BatchAutoFlush == Cardinality(inflight) < MaxPending /\ AutoFlush

NextBatch ==
    \/ LogButtonClick(MaxBatch)
    \/ BatchAutoFlush
    \/ \E logsToSend \in inflight : FetchOk(logsToSend)
    \/ \E logsToSend \in inflight : FetchFail(logsToSend)
    \/ \E req \in csvInflight : CsvOk(req)
    \/ \E req \in csvInflight : CsvFail(req)

\* the same with enough records to fill a batch, both sinks
SpecBatch == Init /\ [][NextBatch]_vars

\* the user goes on while no more than this many delivery calls are open
MaxOpenCalls == 1

\* logButtonClick while few delivery calls are open
GrowLog ==
    /\ Cardinality(inflight) + Cardinality(csvInflight) <= MaxOpenCalls
    /\ LogButtonClick(MaxGrow)

\* CSVLogger.forceFlush(): flush() whatever the buffer holds; the model does not
\* repeat a request that is still in flight
forceFlush ==
    LET f == csvFlushStart(csvBuffer, csvInflight, csvCalls)
    IN  /\ csvBuffer # <<>>
        /\ f.ci # csvInflight
        /\ csvInflight' = f.ci
        /\ csvCalls' = f.cc
        /\ lastOp' = Op("forceFlush", "")
        /\ UNCHANGED <<logQueue, inflight, jsonCalls, csvBuffer, nextId, configVars, restVars,
                       sinkVars, debounceVars, fieldValue>>

NextCsv ==
    \/ LogButtonClick(MaxCsv)
    \/ forceFlush
    \/ \E req \in csvInflight : CsvOk(req)
    \/ \E req \in csvInflight : CsvFail(req)

\* the CSV sink flushed below its threshold, a few records
SpecCsv == Init /\ [][NextCsv]_vars

\* a backend that is down: every delivery call fails, JSON and CSV
NextGrow ==
    \/ GrowLog
    \/ \E logsToSend \in inflight : FetchFailWithin(logsToSend, MaxGrowFailures)
    \/ \E req \in csvInflight : CsvFailWithin(req, MaxGrowFailures)

\* logging against a backend that keeps failing, enough records to fill two batches
SpecGrow == Init /\ [][NextGrow]_vars

(***************************************************************************)
(* Capture: the input / blur listeners and the debounce timers, the manual *)
(* entry point, and the switches.                                          *)
(***************************************************************************)
\* an inputValue that is never masked
maskedValueRaw(type, value) == Substring0(value, MaxInputValueLen)

\* inputValue: target.type === 'password' ? '[HIDDEN]' : value.substring(0, 100)
maskedValue(type, value) ==
    IF type = "password" THEN "[HIDDEN]" ELSE Substring0(value, MaxInputValueLen)

\* the 'input' listener: the field now holds v; debouncedInputChange(target)
RawInput(e, v) ==
    LET k == fieldKey(e)
        h == FreshHandle(k)
    IN  /\ fieldValue' = [fieldValue EXCEPT ![e] = v]
        /\ inputChangeValues' = Put(inputChangeValues, k, [value |-> v, fieldName |-> fieldNameOf(e)])
        /\ timers' = Put(ClearTimerOf(k), h, TRUE)
        /\ inputChangeTimers' = Put(inputChangeTimers, k, h)
        /\ lastOp' = Op("input", k)
        /\ UNCHANGED <<loggerVars, configVars, restVars, sinkVars>>

\* the element logDebouncedInputChange looks up for a key, Null when it returns early
debounceTarget(k) ==
    IF ~Has(inputChangeValues, k) THEN Null
    ELSE querySelector(inputChangeValues[k].fieldName)

\* a debounce timer expires: logDebouncedInputChange(fieldKey)
DebounceTimerFires(h, bound) ==
    /\ h \in DOMAIN timers
    /\ nextId <= bound
    /\ LET k == h[1]
           target == debounceTarget(k)
       IN  /\ timers' = Del(timers, h)
           /\ lastOp' = Op("debounce", k)
           /\ IF target = Null
                THEN UNCHANGED <<loggerVars, inputChangeValues, inputChangeTimers>>
                ELSE LET inputData == inputChangeValues[k]
                     IN  /\ logInteraction("input_change",
                                [trigger |-> "debounced_input",
                                 inputName |-> inputData.fieldName,
                                 inputType |-> Attr(target).type,
                                 inputValue |-> maskedValue(Attr(target).type, inputData.value),
                                 inputId |-> Attr(target).id,
                                 finalValueLength |-> Len(inputData.value),
                                 schema_version |-> "input_change.v1"])
                         /\ inputChangeValues' = Del(inputChangeValues, k)
                         /\ inputChangeTimers' = Del(inputChangeTimers, k)
    /\ UNCHANGED <<configVars, restVars, sinkVars, fieldValue>>

\* storedData?.value || target.value
blurValue(e) ==
    LET k == fieldKey(e)
    IN  IF Has(inputChangeValues, k) THEN Or2(inputChangeValues[k].value, fieldValue[e])
        ELSE fieldValue[e]

\* the 'blur' listener: logInputChangeOnBlur(target)
Blur(e, bound) ==
    /\ nextId <= bound
    /\ LET k == fieldKey(e)
           finalValue == blurValue(e)
       IN  /\ timers' = ClearTimerOf(k)
           /\ inputChangeTimers' = Del(inputChangeTimers, k)
           /\ logInteraction("input_change",
                  [trigger |-> "blur",
                   inputName |-> fieldNameOf(e),
                   inputType |-> Attr(e).type,
                   inputValue |-> maskedValue(Attr(e).type, finalValue),
                   inputId |-> Attr(e).id,
                   finalValueLength |-> Len(finalValue),
                   schema_version |-> "input_change.v1"])
           /\ inputChangeValues' = Del(inputChangeValues, k)
           /\ lastOp' = OpField("blur", k, \E h \in DOMAIN timers : h[1] = k)
    /\ UNCHANGED <<configVars, restVars, sinkVars, fieldValue>>

\* what the application passes to logInteraction and its wrappers
ManualCalls ==
    {<<"button_click", [trigger |-> "click", buttonText |-> "Login", buttonId |-> "login-btn",
                        username |-> "bob", password |-> "hunter2",
                        schema_version |-> "button_click.v1"]>>,
     <<"http_request", [method |-> "OPTIONS", url |-> "/api/customer/login"]>>}

LogManual(call, bound) ==
    /\ nextId <= bound
    /\ logInteraction(call[1], call[2])
    /\ lastOp' = OpCall(call[1], call[2])
    /\ UNCHANGED <<configVars, restVars, sinkVars, debounceVars, fieldValue>>

enable ==
    /\ isEnabled' = TRUE
    /\ lastOp' = Op("enable", "")
    /\ UNCHANGED <<loggerVars, logSystemNoise, strictBusinessAPIFiltering, flushTimer,
                   sinkVars, debounceVars, fieldValue, restVars>>

disable ==
    /\ isEnabled' = FALSE
    /\ lastOp' = Op("disable", "")
    /\ UNCHANGED <<loggerVars, logSystemNoise, strictBusinessAPIFiltering, flushTimer,
                   sinkVars, debounceVars, fieldValue, restVars>>

\* configureSystemNoise(options); filterSystemNoise is stored and reported only, no
\* code path reads it
configureSystemNoise(options) ==
    /\ logSystemNoise' = (IF Has(options, "logSystemNoise") THEN options.logSystemNoise
                           ELSE logSystemNoise)
    /\ strictBusinessAPIFiltering' =
           (IF Has(options, "strictBusinessAPIFiltering") THEN options.strictBusinessAPIFiltering
            ELSE strictBusinessAPIFiltering)
    /\ lastOp' = Op("configure", "")
    /\ UNCHANGED <<loggerVars, isEnabled, flushTimer, sinkVars, debounceVars, fieldValue,
                   restVars>>

NextCapture ==
    \/ \E e \in Elements : \E v \in InputValues(e) : RawInput(e, v)
    \/ \E h \in DOMAIN timers : DebounceTimerFires(h, MaxCapture)
    \/ \E e \in Elements : Blur(e, MaxCapture)
    \/ \E call \in ManualCalls : LogManual(call, MaxCapture)
    \/ enable
    \/ disable

\* the listeners and the debounce timers, a few records
SpecCapture == Init /\ [][NextCapture]_vars

NextAnon ==
    \/ \E e \in AnonFields \cup {"e_user"} : \E v \in InputValues(e) : RawInput(e, v)
    \/ \E h \in DOMAIN timers : DebounceTimerFires(h, MaxCapture)
    \/ \E e \in AnonFields \cup {"e_user"} : Blur(e, MaxCapture)

\* a page with two controls that have neither id nor name
SpecAnon == Init /\ [][NextAnon]_vars

(***************************************************************************)
(* Classification: logInteraction called with every event kind and every   *)
(* details payload built from the fields the classifier reads, each of     *)
(* them present or absent, under every setting of the switches.            *)
(***************************************************************************)
Events == {"http_request", "navigation", "button_click"}

Urls ==
    {"", "/favicon.ico", "/health", "/api/logs", "/api/logs/stats", "/socket.io/?EIO=4",
     "/api/customer/login", "http://localhost:5050/api/orders/create", "/api/unknown/thing"}

\* an options or details object with one optional field
Optional(k, values) == {EmptyMap} \cup {[x \in {k} |-> v] : v \in values}

Payloads ==
    {m @@ c @@ t @@ u :
        m \in Optional("method", {"OPTIONS", "GET"}),
        c \in Optional("statusCode", {200, 301, 302, 308}),
        t \in Optional("trigger", {"browser", "click"}),
        u \in Optional("url", Urls)}

ConfigOptions ==
    {a @@ b : a \in Optional("logSystemNoise", BOOLEAN),
              b \in Optional("strictBusinessAPIFiltering", BOOLEAN)}

\* one call of logInteraction after construction and after each configuration
ClassifiedCall(event, details) ==
    /\ lastOp.op # "log"
    /\ LogManual(<<event, details>>, MaxNoise)

NextNoise ==
    \/ \E event \in Events : \E details \in Payloads : ClassifiedCall(event, details)
    \/ \E options \in ConfigOptions : configureSystemNoise(options)

\* one classified call of an enabled logger, every input, every setting of the two switches
SpecNoise == Init /\ [][NextNoise]_vars

(***************************************************************************)
(* Repeated calls: the same few calls of logInteraction, over and over,    *)
(* while the configuration and the flush interval change.                  *)
(***************************************************************************)
ProbeCalls ==
    {<<"http_request", [url |-> "/api/unknown/thing"]>>,
     <<"http_request", [method |-> "OPTIONS"]>>,
     <<"button_click", ButtonClickDetails>>}

NextProbe ==
    \/ \E call \in ProbeCalls : LogManual(call, MaxProbe)
    \/ \E options \in ConfigOptions : configureSystemNoise(options)
    \/ stopAutoFlush

SpecProbe == Init /\ [][NextProbe]_vars

(***************************************************************************)
(* Lifecycle: logging while the switch, the actor identity, the noise      *)
(* configuration and the timers change, with flushes that succeed or fail. *)
(***************************************************************************)
UserIds == {"u1"}

\* logButtonClick('Order', 'order-btn') and a request whose verdict the strict switch decides
LifeCalls ==
    {<<"button_click", ButtonClickDetails>>,
     <<"http_request", [url |-> "/api/unknown/thing"]>>}

LifeOptions == {[strictBusinessAPIFiltering |-> b] : b \in BOOLEAN}

\* a setUserId that also stamps the records already queued
setUserIdStampsQueue(uid) ==
    /\ userId' = uid
    /\ logQueue' = [i \in DOMAIN logQueue |-> [logQueue[i] EXCEPT !.browser_id = uid]]
    /\ lastOp' = Op("setUserId", uid)
    /\ UNCHANGED <<inflight, jsonCalls, csvBuffer, csvInflight, csvCalls, nextId, configVars,
                   sinkVars, debounceVars, fieldValue, sessionId, outerVars>>

setUserId(uid) ==
    /\ userId' = uid
    /\ lastOp' = Op("setUserId", uid)
    /\ UNCHANGED <<loggerVars, configVars, sinkVars, debounceVars, fieldValue, sessionId,
                   outerVars>>

\* a cleanup that starts a new session
cleanupRenewsSession ==
    /\ timers' = [h \in (DOMAIN timers) \ Range(inputChangeTimers) |-> TRUE]
    /\ inputChangeTimers' = EmptyMap
    /\ inputChangeValues' = EmptyMap
    /\ flushTimer' = FALSE
    /\ sessionId' = "session_2"
    /\ lastOp' = Op("cleanup", "")
    /\ UNCHANGED <<loggerVars, isEnabled, logSystemNoise, strictBusinessAPIFiltering,
                   sinkVars, fieldValue, userId, outerVars>>

\* cleanup(): clears the debounce timers and maps and the flush timer
cleanup ==
    /\ timers' = [h \in (DOMAIN timers) \ Range(inputChangeTimers) |-> TRUE]
    /\ inputChangeTimers' = EmptyMap
    /\ inputChangeValues' = EmptyMap
    /\ flushTimer' = FALSE
    /\ lastOp' = Op("cleanup", "")
    /\ UNCHANGED <<loggerVars, isEnabled, logSystemNoise, strictBusinessAPIFiltering,
                   sinkVars, fieldValue, restVars>>

NextLife ==
    \/ \E call \in LifeCalls : LogManual(call, MaxLife)
    \/ \E uid \in UserIds : setUserId(uid)
    \/ \E options \in LifeOptions : configureSystemNoise(options)
    \/ enable
    \/ disable
    \/ AutoFlush
    \/ \E logsToSend \in inflight : FetchOk(logsToSend)
    \/ \E logsToSend \in inflight : FetchFail(logsToSend)
    \/ cleanup

SpecLife == Init /\ [][NextLife]_vars

(***************************************************************************)
(* Ids: records logged as the clock advances, each with the id string the  *)
(* code builds from Date.now() and Math.random().                          *)
(***************************************************************************)
\* a millisecond clock, seen every TickMs; a timer that is due runs before time goes on
Tick ==
    /\ now + TickMs <= MaxNow
    /\ \A h \in DOMAIN timeouts : timeouts[h] >= now + TickMs
    /\ now' = now + TickMs
    /\ lastOp' = Op("tick", "")
    /\ UNCHANGED <<loggerVars, configVars, sinkVars, debounceVars, fieldValue, identityVars,
                   idText, throttleVars, pageVars>>

\* logButtonClick('Order', 'order-btn'), with the value Math.random gives the id
LogWithId(rnd) ==
    /\ nextId <= MaxIds
    /\ logInteraction("button_click", ButtonClickDetails)
    /\ idText' = (IF nextId' = nextId + 1 THEN Put(idText, nextId, generateId(now, rnd))
                  ELSE idText)
    /\ lastOp' = Op("log", "button_click")
    /\ UNCHANGED <<configVars, sinkVars, debounceVars, fieldValue, identityVars, now,
                   throttleVars, pageVars>>

NextIds ==
    \/ \E rnd \in Randoms : LogWithId(rnd)
    \/ Tick
    \/ AutoFlush

SpecIds == Init /\ [][NextIds]_vars

(***************************************************************************)
(* Scroll and resize: each listener restarts its own 100 ms timer on every *)
(* event, and the timer's callback logs one record.                        *)
(***************************************************************************)
ScrollDetails ==
    [trigger |-> "scroll", scrollX |-> 0, scrollY |-> 120, scrollHeight |-> 2000,
     clientHeight |-> 800, schema_version |-> "scroll.v1"]

ResizeDetails ==
    [trigger |-> "resize", innerWidth |-> 1024, innerHeight |-> 768, outerWidth |-> 1040,
     outerHeight |-> 850, schema_version |-> "window_resize.v1"]

\* a scroll listener that starts a timer without cancelling the previous one
ScrollEventNoCancel ==
    LET h == FreshTimeout("scroll")
    IN  /\ timeouts' = Put(timeouts, h, now + ThrottleDelay)
        /\ scrollTimeout' = h
        /\ lastEventAt' = [lastEventAt EXCEPT !.scroll = now]
        /\ lastOp' = Op("event", "scroll")
        /\ UNCHANGED <<loggerVars, configVars, sinkVars, debounceVars, fieldValue,
                       identityVars, clockVars, resizeTimeout, pageVars>>

\* the scroll listener: clearTimeout(scrollTimeout); scrollTimeout = setTimeout(..., 100)
ScrollEvent ==
    LET h == FreshTimeout("scroll")
    IN  /\ timeouts' = Put(Del(timeouts, scrollTimeout), h, now + ThrottleDelay)
        /\ scrollTimeout' = h
        /\ lastEventAt' = [lastEventAt EXCEPT !.scroll = now]
        /\ lastOp' = Op("event", "scroll")
        /\ UNCHANGED <<loggerVars, configVars, sinkVars, debounceVars, fieldValue,
                       identityVars, clockVars, resizeTimeout, pageVars>>

\* the resize listener: clearTimeout(resizeTimeout); resizeTimeout = setTimeout(..., 100)
ResizeEvent ==
    LET h == FreshTimeout("resize")
    IN  /\ timeouts' = Put(Del(timeouts, resizeTimeout), h, now + ThrottleDelay)
        /\ resizeTimeout' = h
        /\ lastEventAt' = [lastEventAt EXCEPT !.resize = now]
        /\ lastOp' = Op("event", "resize")
        /\ UNCHANGED <<loggerVars, configVars, sinkVars, debounceVars, fieldValue,
                       identityVars, clockVars, scrollTimeout, pageVars>>

\* a scroll timer that logs when the time is half over
TimeoutFiresEarly(h, bound) ==
    /\ h \in DOMAIN timeouts
    /\ timeouts[h] <= now + TickMs
    /\ nextId <= bound
    /\ IF h[1] = "scroll" THEN logInteraction("scroll", ScrollDetails)
       ELSE logInteraction("window_resize", ResizeDetails)
    /\ timeouts' = Del(timeouts, h)
    /\ lastOp' = Op("timeout", h[1])
    /\ UNCHANGED <<configVars, sinkVars, debounceVars, fieldValue, identityVars, clockVars,
                   scrollTimeout, resizeTimeout, lastEventAt, pageVars>>

\* the callback of a scroll or a resize timer, run when the timer is due
TimeoutFires(h, bound) ==
    /\ h \in DOMAIN timeouts
    /\ timeouts[h] <= now
    /\ nextId <= bound
    /\ IF h[1] = "scroll" THEN logInteraction("scroll", ScrollDetails)
       ELSE logInteraction("window_resize", ResizeDetails)
    /\ timeouts' = Del(timeouts, h)
    /\ lastOp' = Op("timeout", h[1])
    /\ UNCHANGED <<configVars, sinkVars, debounceVars, fieldValue, identityVars, clockVars,
                   scrollTimeout, resizeTimeout, lastEventAt, pageVars>>

\* the fields typed into while the page is scrolled and resized
ThrottleFields == {"e_pass", "e_anon"}

NextThrottle ==
    \/ ScrollEvent
    \/ ResizeEvent
    \/ \E h \in DOMAIN timeouts : TimeoutFires(h, MaxThrottle)
    \/ Tick
    \/ \E e \in ThrottleFields : \E v \in InputValues(e) : RawInput(e, v)
    \/ \E h \in DOMAIN timers : DebounceTimerFires(h, MaxThrottle)
    \/ \E e \in ThrottleFields : Blur(e, MaxThrottle)

\* the timers of the page: scroll, resize and the debounce of the input fields
SpecThrottle == Init /\ [][NextThrottle]_vars

(***************************************************************************)
(* The submit listener: the user fills the form and submits it.            *)
(***************************************************************************)
\* what a user types into a text control
FormValues == {"", "bob", "  "}

IsRadio(c) == FormAttr(c).type \in {"checkbox", "radio"}

\* typing into a control that is not a radio button
TypeInto(c, v) ==
    /\ ~IsRadio(c)
    /\ form' = [form EXCEPT ![c].value = v]
    /\ lastOp' = Op("type", c)
    /\ UNCHANGED <<loggerVars, configVars, sinkVars, debounceVars, fieldValue, identityVars,
                   clockVars, throttleVars, viewerVars>>

\* choosing a radio button: the browser unchecks the others of its group
Check(c) ==
    /\ FormAttr(c).type = "radio"
    /\ form' = [d \in DOMAIN form |->
                  IF d = c THEN [form[d] EXCEPT !.checked = TRUE]
                  ELSE IF FormAttr(d).type = "radio" /\ FormAttr(d).name = FormAttr(c).name
                    THEN [form[d] EXCEPT !.checked = FALSE]
                  ELSE form[d]]
    /\ lastOp' = Op("check", c)
    /\ UNCHANGED <<loggerVars, configVars, sinkVars, debounceVars, fieldValue, identityVars,
                   clockVars, throttleVars, viewerVars>>

\* hasValue of one control
hasValue(c) ==
    IF FormAttr(c).tagName = "INPUT"
      THEN IF IsRadio(c) THEN form[c].checked ELSE Len(Trim(form[c].value)) > 0
      ELSE Len(Trim(form[c].value)) > 0

\* one round of the forEach over form.elements: fieldPresenceMap[fieldName] = hasValue
presenceStep(i, m) ==
    LET c == FormControls[i]
    IN  IF formFieldName(c) # "" THEN Put(m, formFieldName(c), hasValue(c)) ELSE m

RECURSIVE presenceFrom(_, _)
presenceFrom(i, m) ==
    IF i > Len(FormControls) THEN m ELSE presenceFrom(i + 1, presenceStep(i, m))

\* the fieldPresenceMap the submit listener builds
fieldPresenceMap == presenceFrom(1, EmptyMap)

SubmitDetails ==
    [trigger |-> "submit",
     formId |-> "order-form",
     formAction |-> "/api/orders",
     formMethod |-> "post",
     formElements |-> [i \in DOMAIN FormControls |->
                          [name |-> FormAttr(FormControls[i]).name,
                           type |-> FormAttr(FormControls[i]).type,
                           required |-> FormAttr(FormControls[i]).required]],
     field_presence_map |-> fieldPresenceMap,
     schema_version |-> "form_submit.v2"]

\* the submit listener
Submit(bound) ==
    /\ nextId <= bound
    /\ logInteraction("form_submit", SubmitDetails)
    /\ lastOp' = Op("submit", "order-form")
    /\ UNCHANGED <<configVars, sinkVars, debounceVars, fieldValue, restVars>>

NextForm ==
    \/ \E c \in Range(FormControls) : \E v \in FormValues : TypeInto(c, v)
    \/ \E c \in Range(FormControls) : Check(c)
    \/ Submit(MaxForm)

SpecForm == Init /\ [][NextForm]_vars

(***************************************************************************)
(* The viewers: the LogViewer dashboard with its push channel, the         *)
(* LogsViewer page, and the backend they talk to.  The backend is the      *)
(* store of the API: GET /api/logs returns the stored records, POST        *)
(* /api/logs/reset clears them and broadcasts logs_reset, a viewer that    *)
(* connects gets the stored records as logs_buffer, and every record the   *)
(* store accepts is broadcast as new_log.                                  *)
(***************************************************************************)
\* what the viewer steps leave alone
loggerSide ==
    <<loggerVars, configVars, sinkVars, debounceVars, fieldValue, identityVars, clockVars,
      throttleVars, form>>

\* how a request ends: 2xx, another status, or no response at all
Outcomes == {"ok", "http_error", "network_error"}

Request(n, who, kind) == [n |-> n, who |-> who, kind |-> kind, stage |-> "sent", body |-> <<>>]

Message(type, logs) == [type |-> type, logs |-> logs]

\* what broadcasting a message does to the channel: a viewer that is not connected
\* does not get it
Broadcast(type, logs) ==
    IF connectionStatus = "connected" THEN Append(socketQueue, Message(type, logs))
    ELSE socketQueue

\* a record as the store returns it, with every field the two viewers read
FullRecord(n) ==
    [id |-> n,
     timestamp |-> Timestamp,
     event_name |-> "button_click",
     action |-> "button_click",
     session_id |-> SessionId,
     url |-> "http://localhost:3000/login",
     details |-> ButtonClickDetails,
     description |-> JSONstringify(ButtonClickDetails),
     viewport |-> [width |-> 1024, height |-> 768]]

\* the ways a stored record can be incomplete
Shapes ==
    {"full", "no_details", "no_viewport", "no_timestamp", "no_description",
     "bad_description"}

\* the stored record of a shape
StoredRecord(n, shape) ==
    CASE shape = "full" -> FullRecord(n)
      [] shape = "no_details" -> Del(FullRecord(n), "details")
      [] shape = "no_viewport" -> Del(FullRecord(n), "viewport")
      [] shape = "no_timestamp" -> Del(FullRecord(n), "timestamp")
      [] shape = "no_description" -> Del(FullRecord(n), "description")
      [] shape = "bad_description" -> [FullRecord(n) EXCEPT !.description = "{\"trigger\":"]

\* the backend stores a record of this shape and broadcasts new_log
ServerStores(shape) ==
    /\ nextStored <= MaxStored
    /\ Len(socketQueue) < MaxSocket
    /\ serverLogs' = Append(serverLogs, StoredRecord(nextStored, shape))
    /\ socketQueue' = Broadcast("new_log", <<StoredRecord(nextStored, shape)>>)
    /\ nextStored' = nextStored + 1
    /\ lastOp' = Op("server_accepts", shape)
    /\ UNCHANGED <<wiped, dashVars, listVars, httpVars, loggerSide>>

\* the backend accepts a record of the logger: every field is there
ServerAccepts == ServerStores("full")

\* newSocket.on('connect'), and the backfill the backend sends to the new connection
Connect ==
    /\ connectionStatus # "connected"
    /\ connectionStatus' = "connected"
    /\ socketQueue' = <<Message("logs_buffer", serverLogs)>>
    /\ lastOp' = Op("connect", "")
    /\ UNCHANGED <<viewerLogs, viewerLoading, serverLogs, wiped, nextStored, listVars,
                   httpVars, loggerSide>>

\* newSocket.on('connect_error')
ConnectError ==
    /\ connectionStatus = "connecting"
    /\ connectionStatus' = "error"
    /\ lastOp' = Op("connect_error", "")
    /\ UNCHANGED <<viewerLogs, viewerLoading, serverVars, listVars, httpVars, loggerSide>>

\* the list the new_log, logs_reset and logs_buffer handlers set
onMessage(msg) ==
    IF msg.type = "new_log" THEN msg.logs \o viewerLogs
    ELSE IF msg.type = "logs_reset" THEN <<>>
    ELSE msg.logs

\* the LogViewer handles the next message of the channel
SocketDeliver ==
    /\ socketQueue # <<>>
    /\ viewerLogs' = onMessage(Head(socketQueue))
    /\ socketQueue' = Tail(socketQueue)
    /\ lastOp' = [op |-> "message", key |-> Head(socketQueue).type,
                  snap |-> Head(socketQueue).logs]
    /\ UNCHANGED <<viewerLoading, connectionStatus, serverLogs, wiped, nextStored, listVars,
                   httpVars, loggerSide>>

\* POST /api/logs/reset of some other viewer, handled by the backend
OtherReset ==
    /\ connectionStatus = "connected"
    /\ Len(socketQueue) < MaxSocket
    /\ serverLogs # <<>>
    /\ serverLogs' = <<>>
    /\ wiped' = wiped \cup Range(serverLogs)
    /\ socketQueue' = Broadcast("logs_reset", <<>>)
    /\ lastOp' = Op("server_reset", "other")
    /\ UNCHANGED <<nextStored, dashVars, listVars, httpVars, loggerSide>>

\* LogViewer.fetchLogs up to its await
ViewerFetch ==
    /\ nextReq <= MaxRequests
    /\ viewerLoading' = TRUE
    /\ requests' = requests \cup {Request(nextReq, "viewer", "logs")}
    /\ nextReq' = nextReq + 1
    /\ lastOp' = Op("fetchLogs", "viewer")
    /\ UNCHANGED <<viewerLogs, connectionStatus, listVars, serverVars, loggerSide>>

\* LogViewer.resetLogs up to its await, the user having confirmed
ViewerReset ==
    /\ nextReq <= MaxRequests
    /\ connectionStatus = "connected"
    /\ requests' = requests \cup {Request(nextReq, "viewer", "reset")}
    /\ nextReq' = nextReq + 1
    /\ lastOp' = Op("resetLogs", "viewer")
    /\ UNCHANGED <<dashVars, listVars, serverVars, loggerSide>>

\* LogsViewer.fetchLogs up to its await; the Refresh button is disabled while loading
PageFetch ==
    /\ nextReq <= MaxRequests
    /\ ~pageLoading
    /\ pageLoading' = TRUE
    /\ pageError' = Null
    /\ requests' = requests \cup {Request(nextReq, "page", "logs")}
    /\ nextReq' = nextReq + 1
    /\ lastOp' = Op("fetchLogs", "page")
    /\ UNCHANGED <<pageLogs, dashVars, serverVars, loggerSide>>

\* the backend answers GET /api/logs, or the request fails
ServerAnswers(req, outcome) ==
    /\ req \in requests
    /\ req.stage = "sent"
    /\ req.kind = "logs"
    /\ requests' = (requests \ {req})
                      \cup {[req EXCEPT !.stage = outcome,
                                        !.body = IF outcome = "ok" THEN serverLogs ELSE <<>>]}
    /\ lastOp' = Op("server_answers", outcome)
    /\ UNCHANGED <<nextReq, dashVars, listVars, serverVars, loggerSide>>

\* the backend handles POST /api/logs/reset, or the request fails
ServerResets(req, outcome) ==
    /\ req \in requests
    /\ req.stage = "sent"
    /\ req.kind = "reset"
    /\ Len(socketQueue) < MaxSocket
    /\ requests' = (requests \ {req}) \cup {[req EXCEPT !.stage = outcome]}
    /\ IF outcome = "ok"
         THEN /\ serverLogs' = <<>>
              /\ wiped' = wiped \cup Range(serverLogs)
              /\ socketQueue' = Broadcast("logs_reset", <<>>)
         ELSE UNCHANGED <<serverLogs, wiped, socketQueue>>
    /\ lastOp' = Op("server_reset", outcome)
    /\ UNCHANGED <<nextStored, nextReq, dashVars, listVars, loggerSide>>

\* LogViewer.fetchLogs after its await: setLogs on 2xx, console.error otherwise
ViewerFetchDone(req) ==
    /\ req \in requests
    /\ req.who = "viewer"
    /\ req.kind = "logs"
    /\ req.stage # "sent"
    /\ viewerLogs' = (IF req.stage = "ok" THEN req.body ELSE viewerLogs)
    /\ viewerLoading' = FALSE
    /\ requests' = requests \ {req}
    /\ lastOp' = [op |-> "fetchLogs_done", key |-> req.stage, snap |-> req.body]
    /\ UNCHANGED <<connectionStatus, nextReq, listVars, serverVars, loggerSide>>

\* LogViewer.resetLogs after its await: the status of the response is not looked at
ViewerResetDone(req) ==
    /\ req \in requests
    /\ req.who = "viewer"
    /\ req.kind = "reset"
    /\ req.stage # "sent"
    /\ viewerLogs' = (IF req.stage = "network_error" THEN viewerLogs ELSE <<>>)
    /\ requests' = requests \ {req}
    /\ lastOp' = Op("resetLogs_done", req.stage)
    /\ UNCHANGED <<viewerLoading, connectionStatus, nextReq, listVars, serverVars,
                   loggerSide>>

\* LogsViewer.fetchLogs after its await
PageFetchDone(req) ==
    /\ req \in requests
    /\ req.who = "page"
    /\ req.stage # "sent"
    /\ pageLogs' = (IF req.stage = "ok" THEN req.body ELSE pageLogs)
    /\ pageError' = (IF req.stage = "ok" THEN pageError ELSE "Failed to load logs")
    /\ pageLoading' = FALSE
    /\ requests' = requests \ {req}
    /\ lastOp' = [op |-> "pageFetch_done", key |-> req.stage, snap |-> req.body]
    /\ UNCHANGED <<nextReq, dashVars, serverVars, loggerSide>>

NextViewer ==
    \/ ServerAccepts
    \/ Connect
    \/ ConnectError
    \/ SocketDeliver
    \/ OtherReset
    \/ ViewerFetch
    \/ ViewerReset
    \/ PageFetch
    \/ \E req \in requests : \E outcome \in Outcomes : ServerAnswers(req, outcome)
    \/ \E req \in requests : \E outcome \in Outcomes : ServerResets(req, outcome)
    \/ \E req \in requests : ViewerFetchDone(req)
    \/ \E req \in requests : ViewerResetDone(req)
    \/ \E req \in requests : PageFetchDone(req)

SpecViewer == Init /\ [][NextViewer]_vars

(***************************************************************************)
(* Rendering: what the two viewers make of the records they hold.  A row   *)
(* that throws while React renders it takes the component down: neither    *)
(* viewer has an error boundary.                                           *)
(***************************************************************************)
\* new Date(timestamp).toLocaleString()
toLocaleString(timestamp) ==
    IF timestamp = Timestamp THEN "1/1/2025, 12:00:00 AM" ELSE "Invalid Date"

\* LogViewer.formatTimestamp
formatTimestamp(timestamp) ==
    IF ~Truthy(timestamp) THEN "Unknown time" ELSE toLocaleString(timestamp)

\* JSON.parse accepts the text: an object that is closed
JSONparses(text) ==
    /\ Len(text) >= 2
    /\ SubSeq(text, 1, 1) = "{"
    /\ SubSeq(text, Len(text), Len(text)) = "}"

\* the log row of the LogViewer throws: Object.keys(log.details), log.viewport.width
viewerRowThrows(log) == ~Has(log, "details") \/ ~Has(log, "viewport")

\* the log row of the LogViewer: the time and the detail block
viewerRow(log) ==
    [time |-> formatTimestamp(Or3(Get(log, "timestamp"), Get(log, "event_time"), "")),
     details |-> IF DOMAIN log.details # {} THEN JSONstringify(log.details) ELSE ""]

\* the log row of the LogsViewer page throws: JSON.parse(l.description || '{}')
pageRowThrows(l) == ~JSONparses(Or2(Get(l, "description"), "{}"))

\* the log row of the LogsViewer page: the time and the detail block
pageRow(l) ==
    [time |-> toLocaleString(Get(l, "timestamp")),
     details |-> Or2(Get(l, "description"), "{}")]

\* the records reach the viewers in every shape; no reset
NextRender ==
    \/ \E shape \in Shapes : ServerStores(shape)
    \/ Connect
    \/ SocketDeliver
    \/ ViewerFetch
    \/ PageFetch
    \/ \E req \in requests : ServerAnswers(req, "ok")
    \/ \E req \in requests : ViewerFetchDone(req)
    \/ \E req \in requests : PageFetchDone(req)

SpecRender == Init /\ [][NextRender]_vars

(***************************************************************************)
(* What the properties read.                                               *)
(***************************************************************************)
\* the records the logger holds: queued, or in the snapshot of a pending POST
Held == Range(logQueue) \cup UNION {Range(s) : s \in inflight}

\* position of the record with this id in a queue (0: absent)
Pos(q, id) == IF \E i \in DOMAIN q : q[i].id = id
              THEN CHOOSE i \in DOMAIN q : q[i].id = id ELSE 0

MaxOf(S) == CHOOSE x \in S : \A y \in S : y <= x

\* a debounce timer is pending for the key: raw input came and has not settled
BurstOpen(k) == \E h \in DOMAIN timers : h[1] = k

\* JSON.stringify of one record of { logs: logsToSend }, the fields a caller's data reaches
serializeRecord(r) ==
    "{\"id\":\"log_" \o ToStr(r.id) \o "\",\"event_name\":\"" \o r.event_name
      \o "\",\"username_length\":" \o ToStr(r.username_length)
      \o ",\"password_length\":" \o ToStr(r.password_length)
      \o (IF r.inputValue = Undefined THEN ""
          ELSE ",\"inputValue\":\"" \o r.inputValue \o "\"")
      \o ",\"details\":" \o JSONstringify(r.details) \o "}"

\* the passwords of this model: the one typed and the one handed to logInteraction
Passwords == {"hunter2"}

(***************************************************************************)
(* C1                                                                      *)
(***************************************************************************)
\* C1: with logging enabled, a burst of raw input events on a field that ends by the
\* expiry of its debounce timer or by a blur enqueues exactly one input_change record
\* in that step: never none, never two.
C1_OneRecordPerBurst ==
    [][(/\ isEnabled
        /\ lastOp'.op \in {"debounce", "blur"}
        /\ BurstOpen(lastOp'.key))
       => /\ nextId' = nextId + 1
          /\ \E r \in Held' : r.id = nextId /\ r.event_name = "input_change"]_vars

(***************************************************************************)
(* C2                                                                      *)
(***************************************************************************)
\* C2: when a POST of a snapshot fails, every record of the snapshot is in the live
\* queue afterwards, in the order it had in the snapshot, and ahead of every record
\* that was appended while the POST was pending (the queued records with larger ids).
C2_FailedSnapshotRequeuedInFront ==
    [][lastOp'.op = "fetch_fail"
       => \E s \in inflight \ inflight' :
            /\ \A i \in DOMAIN s : Pos(logQueue', s[i].id) > 0
            /\ \A i, j \in DOMAIN s :
                 i < j => Pos(logQueue', s[i].id) < Pos(logQueue', s[j].id)
            /\ \A r \in Range(logQueue) :
                 r.id > MaxOf(Ids(s))
                   => /\ Pos(logQueue', r.id) > 0
                      /\ \A i \in DOMAIN s : Pos(logQueue', s[i].id) < Pos(logQueue', r.id)]_vars

\* a failed snapshot of two records is back in front of a record logged during the POST
C2_Witness ==
    /\ lastOp.op = "fetch_fail"
    /\ Len(lastOp.snap) >= 2
    /\ Len(logQueue) > Len(lastOp.snap)
    /\ IdSeq(SubSeq(logQueue, 1, Len(lastOp.snap))) = lastOp.snap
    /\ logQueue[Len(logQueue)].id > MaxOf(Range(lastOp.snap))

(***************************************************************************)
(* C3                                                                      *)
(***************************************************************************)
\* C3: as long as no delivery call has failed, no accepted record is carried by two
\* POSTs to /api/logs and none by two POSTs to /api/logs/csv.
C3_AtMostOncePerSink ==
    failures = 0
      => \A id \in 1..(nextId - 1) : Count(jsonCalls, id) <= 1 /\ Count(csvCalls, id) <= 1

(***************************************************************************)
(* C4                                                                      *)
(***************************************************************************)
\* C4: no record in the queue and no entry of the CSV buffer contains a raw password
\* anywhere in its serialized form.
C4_NoRawPassword ==
    \A pw \in Passwords :
        /\ \A r \in Held : ~Includes(serializeRecord(r), pw)
        /\ \A i \in DOMAIN csvBuffer : ~Includes(csvLine(csvBuffer[i]), pw)

(***************************************************************************)
(* C5                                                                      *)
(***************************************************************************)
InQueue(id) == id \in Ids(logQueue)

Attempted(id) == Count(jsonCalls, id) >= 1

\* C5 as written: every queued record is eventually carried by a POST to /api/logs,
\* unless clearQueue takes it from the queue first; no record stays queued for ever.
C5_EveryRecordAttempted ==
    \A id \in 1..MaxRecords : InQueue(id) ~> (Attempted(id) \/ ~InQueue(id))

\* C5, amended: while the flush interval runs, every queued record is eventually carried by a
\* POST to /api/logs (periodic or size-triggered flush), unless clearQueue takes it
\* from the queue first; once stopAutoFlush has cleared the interval nothing sends it.
C5_AttemptedWhileTimerRuns ==
    \A id \in 1..MaxRecords : InQueue(id) ~> (Attempted(id) \/ ~InQueue(id) \/ ~flushTimer)

\* the periodic flush has just sent a record logged after construction, timer running
C5_Witness ==
    /\ lastOp.op = "flush"
    /\ flushTimer
    /\ \E i \in DOMAIN lastOp.snap : lastOp.snap[i] > 1 /\ Count(jsonCalls, lastOp.snap[i]) = 1

(***************************************************************************)
(* C6                                                                      *)
(***************************************************************************)
\* C6: every flush trigger attempts a delivery for the CSV sink too: a periodic flush
\* that finds entries in the CSV buffer starts a POST to /api/logs/csv.
C6_FlushAlsoSendsCsv ==
    [][(lastOp'.op = "flush" /\ csvBuffer # <<>>)
       => \E id \in 1..(nextId - 1) : Count(csvCalls', id) > Count(csvCalls, id)]_vars

(***************************************************************************)
(* C7                                                                      *)
(***************************************************************************)
\* C7: a logInteraction call that brings the queue to the batch size starts the flush
\* itself: after the call the live queue is empty and the queue's records, the new
\* one last, are the snapshot of a POST that was not pending before.
C7_FullQueueFlushesInCall ==
    [][(lastOp'.op = "log" /\ nextId' = nextId + 1 /\ Len(logQueue) + 1 >= batchSize)
       => /\ logQueue' = <<>>
          /\ \E s \in inflight' \ inflight :
               /\ Len(s) = Len(logQueue) + 1
               /\ SubSeq(s, 1, Len(logQueue)) = logQueue
               /\ s[Len(s)].id = nextId]_vars

\* the tenth record has just been logged and the batch of ten is in flight
C7_Witness ==
    /\ lastOp.op = "log"
    /\ logQueue = <<>>
    /\ \E s \in inflight : Len(s) = batchSize /\ s[Len(s)].id = nextId - 1

(***************************************************************************)
(* C8                                                                      *)
(***************************************************************************)
\* C8: a flush of a non-empty queue takes, in one step, the whole queue as its snapshot
\* and leaves the live queue empty; the one POST it starts carries the snapshot's
\* records in queue order.  A flush of an empty queue starts no POST and changes
\* nothing.
C8_FlushIsAtomic ==
    [][lastOp'.op = "flush"
       => IF logQueue # <<>>
          THEN /\ logQueue' = <<>>
               /\ logQueue \notin inflight
               /\ inflight' = inflight \cup {logQueue}
               /\ \A id \in 1..(nextId - 1) :
                    Count(jsonCalls', id) = Count(jsonCalls, id) + (IF InQueue(id) THEN 1 ELSE 0)
          ELSE UNCHANGED <<logQueue, inflight, jsonCalls, csvBuffer, csvInflight, csvCalls>>]_vars

\* the periodic flush has just taken a queue of three records
C8_Witness ==
    /\ lastOp.op = "flush"
    /\ Len(lastOp.snap) = 3
    /\ logQueue = <<>>
    /\ \E s \in inflight : IdSeq(s) = lastOp.snap

(***************************************************************************)
(* C9                                                                      *)
(***************************************************************************)
\* C9: the live queue is always in capture order: an older record precedes every newer
\* one, also after two pending POSTs have failed in any order.
C9_QueueInCaptureOrder ==
    \A i, j \in DOMAIN logQueue : i < j => logQueue[i].id < logQueue[j].id

(***************************************************************************)
(* C10                                                                     *)
(***************************************************************************)
\* C10: logInteraction does not wait for a pending POST.  A call made while one is
\* pending completes in its own step: the pending snapshots stay as they are, the new
\* record is in none of them, and it is in the live queue or in a snapshot started by
\* this call.  Whatever the outcome of a pending POST, the records of the live queue
\* stay queued.
C10_LogNeverWaitsForDelivery ==
    [][/\ lastOp'.op = "log"
            => /\ inflight \subseteq inflight'
               /\ \A s \in inflight : nextId \notin Ids(s)
               /\ \/ nextId \in Ids(logQueue')
                  \/ \E s \in inflight' \ inflight : nextId \in Ids(s)
       /\ lastOp'.op \in {"fetch_ok", "fetch_fail"}
            => \A id \in Ids(logQueue) : id \in Ids(logQueue')]_vars

\* a POST has just succeeded and a record logged while it was pending is still queued
C10_Witness ==
    /\ lastOp.op = "fetch_ok"
    /\ lastOp.snap # <<>>
    /\ \E r \in Range(logQueue) : r.id > MaxOf(Range(lastOp.snap))

(***************************************************************************)
(* C11                                                                     *)
(***************************************************************************)
\* C11: the two sinks fail independently.  A failed POST to /api/logs/csv leaves the
\* JSON queue, its pending POSTs and its deliveries as they are and leaves the CSV
\* buffer's entries in the buffer; a failed POST to /api/logs leaves the CSV buffer,
\* its pending POSTs and its deliveries as they are.
C11_IndependentFailureDomains ==
    [][/\ lastOp'.op = "csv_fail"
            => UNCHANGED <<logQueue, inflight, jsonCalls, jsonStored, csvBuffer>>
       /\ lastOp'.op = "fetch_fail"
            => UNCHANGED <<csvBuffer, csvInflight, csvCalls, csvStored>>]_vars

\* a CSV POST of a full buffer has just failed: the entries are still buffered, and the
\* JSON sink has records queued or on their way
C11_Witness ==
    /\ lastOp.op = "csv_fail"
    /\ Len(csvBuffer) >= bufferSize
    /\ csvStored = {}
    /\ (logQueue # <<>> \/ inflight # {})

(***************************************************************************)
(* C12                                                                     *)
(***************************************************************************)
\* the attempt ids of the entries the CSV buffer holds
BufferedIds(cb) == {cb[i].attempt_id : i \in DOMAIN cb}

\* C12: a failed delivery of either sink is recovered by keeping its records for a
\* retry and leaves no other trace.  After a failed POST to /api/logs every record of
\* the snapshot is back in the live queue; after a failed POST to /api/logs/csv every
\* record of the request is in the CSV buffer again or was already stored by the CSV
\* endpoint; the switches and the flush interval are as before, and the logger still
\* accepts the next record.
C12_FailureRecoveredByRequeue ==
    [][/\ lastOp'.op \in {"fetch_fail", "csv_fail"} => UNCHANGED configVars
       /\ lastOp'.op = "fetch_fail"
            => \A s \in inflight \ inflight' : Ids(s) \subseteq Ids(logQueue')
       /\ lastOp'.op = "csv_fail"
            => \A req \in csvInflight \ csvInflight' :
                 req.ids \subseteq (BufferedIds(csvBuffer') \cup csvStored')]_vars

(***************************************************************************)
(* C13                                                                     *)
(***************************************************************************)
\* C13: a blur on a field whose debounce timer is pending cancels the timer and, with
\* logging enabled, enqueues the input_change record with trigger 'blur' in the blur
\* step itself.  After the step no timer is pending for the field key and the map holds
\* no handle for it, so the cancelled timer cannot emit a second record.
C13_BlurCancelsAndEmits ==
    [][(lastOp'.op = "blur" /\ BurstOpen(lastOp'.key))
       => /\ \A h \in DOMAIN timers' : h[1] # lastOp'.key
          /\ ~Has(inputChangeTimers', lastOp'.key)
          /\ isEnabled
               => /\ nextId' = nextId + 1
                  /\ \E r \in Held' :
                       /\ r.id = nextId
                       /\ r.event_name = "input_change"
                       /\ r.details.trigger = "blur"]_vars

\* a blur has just found a timer pending and cancelled it, and its record is the newest
C13_Witness ==
    /\ lastOp.op = "blur"
    /\ lastOp.snap # <<>>
    /\ ~BurstOpen(lastOp.key)
    /\ \E r \in Held : r.id = nextId - 1 /\ r.details.trigger = "blur"

(***************************************************************************)
(* C14                                                                     *)
(***************************************************************************)
\* the element a field key belongs to
ElementOf(k) == CHOOSE e \in Elements : fieldKey(e) = k

\* the step closes a burst on lastOp'.key and enqueues a record
BurstEmits ==
    /\ lastOp'.op \in {"debounce", "blur"}
    /\ BurstOpen(lastOp'.key)
    /\ nextId' = nextId + 1

\* C14 as written: the input_change record emitted for a burst, on timer expiry and on
\* blur, carries inputValue equal to the last raw value of the burst (the mask token
\* '[HIDDEN]' if the field type is password) and finalValueLength equal to the length
\* of that last raw value.
C14_RecordCarriesLastValue ==
    [][BurstEmits
       => LET e == ElementOf(lastOp'.key)
              raw == fieldValue[e]
          IN  \E r \in Held' :
                /\ r.id = nextId
                /\ r.details.inputValue = (IF Attr(e).type = "password" THEN "[HIDDEN]" ELSE raw)
                /\ r.details.finalValueLength = Len(raw)]_vars

\* C14, amended: the record carries the first 100 characters of the last raw value of the
\* burst ('[HIDDEN]' if the field type is password) as inputValue, and the length of
\* the whole last raw value as finalValueLength, on timer expiry and on blur.
C14_RecordCarriesLastValueCut ==
    [][BurstEmits
       => LET e == ElementOf(lastOp'.key)
              raw == fieldValue[e]
              cut == IF Len(raw) > MaxInputValueLen THEN SubSeq(raw, 1, MaxInputValueLen) ELSE raw
          IN  \E r \in Held' :
                /\ r.id = nextId
                /\ r.details.inputValue = (IF Attr(e).type = "password" THEN "[HIDDEN]" ELSE cut)
                /\ r.inputValue = r.details.inputValue
                /\ r.details.finalValueLength = Len(raw)
                /\ r.finalValueLength = Len(raw)]_vars

\* the timer of a burst that ended with the long value has fired: the record holds its
\* first 100 characters and its full length
C14_Witness ==
    /\ lastOp.op = "debounce"
    /\ \E r \in Held :
         /\ r.id = nextId - 1
         /\ r.details.trigger = "debounced_input"
         /\ Len(r.details.inputValue) = MaxInputValueLen
         /\ r.details.finalValueLength = MaxInputValueLen + 1

(***************************************************************************)
(* C15                                                                     *)
(***************************************************************************)
\* the step is a call logInteraction(lastOp'.key, lastOp'.details) of an enabled logger
Called == lastOp'.op = "log" /\ Has(lastOp', "details") /\ isEnabled

\* the step has appended the record numbered nextId to the queue and its entry to the
\* CSV buffer, tagged with this verdict
EnqueuedTagged(isNoise, reason) ==
    /\ nextId' = nextId + 1
    /\ \E r \in Range(logQueue') :
         /\ r.id = nextId
         /\ r.event_name = lastOp'.key
         /\ r.details = lastOp'.details
         /\ r.system_noise = isNoise
         /\ r.noise_reason = reason
    /\ nextId \in BufferedIds(csvBuffer')

\* C15: the noise toggle selects between two modes.  With logSystemNoise on, a call the
\* classifier flags as noise is enqueued, in the queue and in the CSV buffer, tagged
\* system_noise = true with the classifier's reason; with logSystemNoise off such a
\* call is dropped and reaches neither sink; a call classified as not noise is
\* enqueued in both modes with system_noise = false.
C15_NoiseToggleModes ==
    [][Called
       => LET verdict == isSystemNoiseEnhanced(lastOp'.key, lastOp'.details,
                                               strictBusinessAPIFiltering)
          IN  IF verdict.isNoise
              THEN IF logSystemNoise THEN EnqueuedTagged(TRUE, verdict.reason)
                   ELSE UNCHANGED <<loggerVars, sinkVars>>
              ELSE EnqueuedTagged(FALSE, Undefined)]_vars

\* with the toggle on, a CORS preflight has just been enqueued, tagged as noise
C15_Witness ==
    /\ lastOp.op = "log"
    /\ logSystemNoise
    /\ \E r \in Range(logQueue) :
         /\ r.id = nextId - 1
         /\ r.event_name = "http_request"
         /\ r.system_noise
         /\ r.noise_reason = "cors_preflight"
         /\ r.id \in BufferedIds(csvBuffer)

(***************************************************************************)
(* C16                                                                     *)
(***************************************************************************)
\* the record carries this noise verdict
Tagged(r, reason) == r.system_noise /\ r.noise_reason = reason

\* the record is a navigation with this status code
Redirected(r, code) ==
    r.event_name = "navigation" /\ Has(r.details, "statusCode") /\ r.details.statusCode = code

\* C16: the rules are evaluated in the stated order and the first match wins.  Every
\* record of an http_request with method OPTIONS is tagged 'cors_preflight', whatever
\* its trigger and URL; every navigation with statusCode 301, 302, 308 is tagged
\* 'moved_permanently', 'temporary_redirect', 'permanent_redirect'; every other
\* http_request with trigger 'browser' is tagged 'browser_initiated', whatever its URL.
C16_FirstMatchWins ==
    \A r \in Held :
        /\ (r.event_name = "http_request" /\ Get(r.details, "method") = "OPTIONS")
             => Tagged(r, "cors_preflight")
        /\ Redirected(r, 301) => Tagged(r, "moved_permanently")
        /\ Redirected(r, 302) => Tagged(r, "temporary_redirect")
        /\ Redirected(r, 308) => Tagged(r, "permanent_redirect")
        /\ (/\ r.event_name = "http_request"
            /\ Get(r.details, "method") # "OPTIONS"
            /\ Get(r.details, "trigger") = "browser")
             => Tagged(r, "browser_initiated")

\* a browser-triggered request to /health is held, tagged by the trigger rule and not by
\* the URL rule
C16_Witness ==
    \E r \in Held :
        /\ r.event_name = "http_request"
        /\ Get(r.details, "method") = "GET"
        /\ Get(r.details, "trigger") = "browser"
        /\ Get(r.details, "url") = "/health"
        /\ r.noise_reason = "browser_initiated"

(***************************************************************************)
(* C17                                                                     *)
(***************************************************************************)
\* the URL patterns of the classifier and their reason tags
UrlReason ==
    [p \in {"/favicon", "/health", "/api/logs", "/api/logs/stats", "/socket.io"} |->
        CASE p = "/favicon" -> "favicon_request"
          [] p = "/health" -> "health_check"
          [] p = "/api/logs" -> "logging_endpoint"
          [] p = "/api/logs/stats" -> "logging_stats"
          [] p = "/socket.io" -> "websocket_connection"]

\* the patterns the record's URL contains
PatternsIn(r) ==
    {p \in DOMAIN UrlReason : Has(r.details, "url") /\ Includes(r.details.url, p)}

\* an http_request that neither the OPTIONS rule nor the browser-trigger rule matches
PastEarlyRules(r) ==
    /\ r.event_name = "http_request"
    /\ Get(r.details, "method") # "OPTIONS"
    /\ Get(r.details, "trigger") # "browser"

\* C17: every record of an http_request that the OPTIONS and browser-trigger rules do
\* not match and whose URL contains /favicon, /health, /api/logs, /api/logs/stats or
\* /socket.io is tagged as noise with the reason of a pattern its URL contains; a URL
\* that contains /api/logs/stats is tagged 'logging_stats'.
C17_UrlPatternReason ==
    \A r \in Held :
        (PastEarlyRules(r) /\ PatternsIn(r) # {})
          => /\ r.system_noise
             /\ \E p \in PatternsIn(r) : r.noise_reason = UrlReason[p]
             /\ "/api/logs/stats" \in PatternsIn(r) => r.noise_reason = "logging_stats"

(***************************************************************************)
(* C18                                                                     *)
(***************************************************************************)
\* the URL of the call contains one of the allow-listed business endpoints
OnAllowList(details) ==
    Has(details, "url") /\ \E endpoint \in businessEndpoints : Includes(details.url, endpoint)

\* the step is a call with an http_request that no rule before the allow-list matches,
\* and the logger keeps noise, so that the verdict shows on the new record
UnmatchedRequestLogged ==
    /\ Called
    /\ logSystemNoise
    /\ lastOp'.key = "http_request"
    /\ Get(lastOp'.details, "method") # "OPTIONS"
    /\ Get(lastOp'.details, "trigger") # "browser"
    /\ \A p \in DOMAIN UrlReason : ~UrlIncludes(lastOp'.details, p)

\* C18 as written: with strict filtering on, an http_request that no earlier rule matched
\* is not noise if and only if its URL matches an allow-listed business endpoint, and
\* otherwise is noise 'non_business_api'; with strict filtering off it is not noise.
C18_StrictAllowList ==
    [][UnmatchedRequestLogged
       => IF strictBusinessAPIFiltering /\ ~OnAllowList(lastOp'.details)
          THEN EnqueuedTagged(TRUE, "non_business_api")
          ELSE EnqueuedTagged(FALSE, Undefined)]_vars

\* C18, amended: with strict filtering on, an http_request with a non-empty url that no
\* earlier rule matched is not noise if and only if its URL contains an allow-listed
\* business endpoint, and otherwise is noise 'non_business_api'; a request whose url is
\* absent or empty is not noise; with strict filtering off none of them is noise.
C18_StrictAllowListOfUrl ==
    [][UnmatchedRequestLogged
       => IF /\ strictBusinessAPIFiltering
             /\ Get(lastOp'.details, "url") \notin {Undefined, ""}
             /\ ~OnAllowList(lastOp'.details)
          THEN EnqueuedTagged(TRUE, "non_business_api")
          ELSE EnqueuedTagged(FALSE, Undefined)]_vars

\* under strict filtering a request to an unlisted endpoint has been tagged
\* 'non_business_api'
C18_Witness ==
    /\ lastOp.op = "log"
    /\ strictBusinessAPIFiltering
    /\ \E r \in Range(logQueue) :
         /\ r.id = nextId - 1
         /\ Get(r.details, "url") = "/api/unknown/thing"
         /\ Tagged(r, "non_business_api")

(***************************************************************************)
(* C19                                                                     *)
(***************************************************************************)
\* the field each noise reason is decided on
ReasonField ==
    [reason \in {"cors_preflight", "moved_permanently", "temporary_redirect",
                 "permanent_redirect", "browser_initiated", "favicon_request",
                 "health_check", "logging_endpoint", "logging_stats",
                 "websocket_connection", "non_business_api"} |->
        CASE reason = "cors_preflight" -> "method"
          [] reason \in {"moved_permanently", "temporary_redirect", "permanent_redirect"}
               -> "statusCode"
          [] reason = "browser_initiated" -> "trigger"
          [] OTHER -> "url"]

\* C19: classification never fails.  Whatever the event kind and whichever of method,
\* statusCode, trigger and url are absent from the details, a call of a logger that
\* keeps noise returns with its record enqueued and a verdict on it; a verdict of
\* noise is always decided on a field that is present, so a payload with none of the
\* four fields, and an http_request without a url that the method and trigger rules do
\* not match, are not noise, with strict filtering on or off.
C19_AbsentFieldsFallThrough ==
    [][(Called /\ logSystemNoise)
       => /\ nextId' = nextId + 1
          /\ \E r \in Range(logQueue') :
               /\ r.id = nextId
               /\ r.details = lastOp'.details
               /\ r.system_noise \in BOOLEAN
               /\ IF r.system_noise
                  THEN /\ r.noise_reason \in DOMAIN ReasonField
                       /\ Has(r.details, ReasonField[r.noise_reason])
                  ELSE r.noise_reason = Undefined
               /\ (/\ ~Has(r.details, "url")
                   /\ Get(r.details, "method") # "OPTIONS"
                   /\ Get(r.details, "trigger") # "browser"
                   /\ r.event_name = "http_request") => ~r.system_noise]_vars

\* under strict filtering an http_request with an empty details object has been enqueued
\* as not noise
C19_Witness ==
    /\ lastOp.op = "log"
    /\ strictBusinessAPIFiltering
    /\ \E r \in Range(logQueue) :
         /\ r.id = nextId - 1
         /\ r.event_name = "http_request"
         /\ DOMAIN r.details = {}
         /\ ~r.system_noise

(***************************************************************************)
(* C20                                                                     *)
(***************************************************************************)
\* the two records come from calls with the same event name and details
SameInputs(r1, r2) == r1.event_name = r2.event_name /\ r1.details = r2.details

SameVerdict(r1, r2) ==
    r1.system_noise = r2.system_noise /\ r1.noise_reason = r2.noise_reason

C21_DisabledIsNoOp ==
    [][/\ (lastOp'.op = "log" /\ ~isEnabled) => UNCHANGED <<loggerVars, sinkVars>>
       /\ lastOp'.op \in {"enable", "disable"} => UNCHANGED <<loggerVars, sinkVars>>
       /\ (lastOp'.op = "flush" /\ ~isEnabled /\ logQueue # <<>>)
            => /\ logQueue' = <<>>
               /\ inflight' = inflight \cup {logQueue}]_vars

\* logInteraction has just been called on a disabled logger that has records queued
C21_Witness ==
    /\ lastOp.op = "log"
    /\ ~isEnabled
    /\ Len(logQueue) >= 2

(***************************************************************************)
(* C22                                                                     *)
(***************************************************************************)
\* C22: a record is immutable once it is queued.  Whatever the step (setUserId,
\* configureSystemNoise, enable, disable, cleanup, a flush, a delivery that succeeds
\* or fails and re-queues), a record the logger held before the step and still holds
\* after it has every field as before.  A record captured by the step carries the actor
\* identity of that moment: browser_id is the userId set before the call, 'anonymous'
\* if none was set.
C22_QueuedRecordImmutable ==
    [][/\ \A r \in Held : \A r2 \in Held' : r2.id = r.id => r2 = r
       /\ (lastOp'.op = "log" /\ nextId' = nextId + 1)
            => \E r \in Held' :
                 /\ r.id = nextId
                 /\ r.userId = userId
                 /\ r.browser_id = (IF userId = Undefined THEN "anonymous" ELSE userId)]_vars

\* setUserId came between two captures and a failed POST has re-queued the first record:
\* it is still anonymous, the later one carries the user
C22_Witness ==
    /\ lastOp.op = "fetch_fail"
    /\ \E r1, r2 \in Range(logQueue) :
         /\ r1.id < r2.id
         /\ r1.id \in Range(lastOp.snap)
         /\ r1.event_name = "button_click"
         /\ r1.browser_id = "anonymous"
         /\ r2.browser_id = "u1"

(***************************************************************************)
(* C23                                                                     *)
(***************************************************************************)
\* C23: the session id is constant for the logger instance.  Over any sequence of
\* setUserId, enable, disable, configureSystemNoise, cleanup and failed or successful
\* flushes, getCurrentSessionId returns the id generated by the constructor, and every
\* record the logger holds and every entry of the CSV buffer carries it.
C23_SessionIdConstant ==
    /\ sessionId = SessionId
    /\ \A r \in Held : r.session_id = SessionId
    /\ \A i \in DOMAIN csvBuffer : csvBuffer[i].session_id = SessionId

\* a record captured after cleanup, setUserId and a failed flush carries the session id
C23_Witness ==
    /\ ~flushTimer
    /\ userId = "u1"
    /\ failures > 0
    /\ lastOp.op = "log"
    /\ \E r \in Range(logQueue) : r.id = nextId - 1 /\ r.session_id = SessionId

(***************************************************************************)
(* C24                                                                     *)
(***************************************************************************)
\* C24: record ids are unique: no two records created by logInteraction, also two
\* created within the same millisecond, have the same id string.
C24_IdsUnique ==
    \A i, j \in DOMAIN idText : i # j => idText[i] # idText[j]

(***************************************************************************)
(* C25                                                                     *)
(***************************************************************************)
\* the timers pending for a debounce field key, and for scroll or resize
PendingFor(k) == {h \in DOMAIN timers : h[1] = k} \cup {h \in DOMAIN timeouts : h[1] = k}

\* C25: timers for the same key never race: at every moment at most one timer is
\* pending for a debounce field key, at most one for scroll and at most one for resize.
C25_OneTimerPerKey ==
    \A k \in FieldKeys \cup {"scroll", "resize"} : Cardinality(PendingFor(k)) <= 1

\* a scroll event has just restarted a timer that was pending, while a resize timer and
\* a debounce timer are pending too
C25_Witness ==
    /\ lastOp.op = "event"
    /\ lastOp.key = "scroll"
    /\ lastEventAt.scroll > 0
    /\ timeouts[scrollTimeout] = now + ThrottleDelay
    /\ PendingFor("resize") # {}
    /\ \E k \in FieldKeys : PendingFor(k) # {}

(***************************************************************************)
(* C26                                                                     *)
(***************************************************************************)
\* the event name of the record a scroll or a resize timer logs
ThrottledName(k) == IF k = "scroll" THEN "scroll" ELSE "window_resize"

\* the step has appended a record with this event name
Emits(name) ==
    /\ nextId' = nextId + 1
    /\ \E r \in Held' : r.id = nextId /\ r.event_name = name

\* C26: scroll and resize logging is trailing-edge with a 100 ms window.  A scroll
\* (resize) event restarts the window and emits nothing; the one scroll
\* (window_resize) record of a burst is emitted by the timer, 100 ms after the last
\* event of the burst, and after it no timer of the burst is left to emit a second one.
C26_TrailingEdge ==
    [][/\ lastOp'.op = "event"
            => /\ UNCHANGED loggerVars
               /\ \A h \in DOMAIN timeouts' :
                    h[1] = lastOp'.key => timeouts'[h] = now + ThrottleDelay
       /\ (Emits("scroll") \/ Emits("window_resize")) => lastOp'.op = "timeout"
       /\ lastOp'.op = "timeout"
            => /\ now = lastEventAt[lastOp'.key] + ThrottleDelay
               /\ \A h \in DOMAIN timeouts' : h[1] # lastOp'.key
               /\ isEnabled => Emits(ThrottledName(lastOp'.key))]_vars

\* a burst of two scroll events 50 ms apart has ended, and its one record is the newest:
\* it was emitted 100 ms after the second event
C26_Witness ==
    /\ lastOp.op = "timeout"
    /\ lastOp.key = "scroll"
    /\ lastEventAt.scroll = TickMs
    /\ now = TickMs + ThrottleDelay
    /\ Cardinality({r \in Held : r.event_name = "scroll"}) = 1

(***************************************************************************)
(* C27                                                                     *)
(***************************************************************************)
\* the values formatToCSVEntry reads for a column, in the order it tries them
SourcesOf(data, header) ==
    CASE header = "timestamp" -> <<Get(data, "timestamp")>>
      [] header = "event" -> <<Get(data, "event"), Get(data, "action")>>
      [] header = "session_id" -> <<Get(data, "session_id"), Get(data, "sessionId")>>
      [] header = "route" -> <<Get(data, "route"), Get(data, "url")>>
      [] header = "method" -> <<Get(data.details, "method"), Get(data, "method")>>
      [] header = "status_code" -> <<Get(data.details, "status_code"), Get(data, "status_code")>>
      [] header = "user_id" -> <<Get(data.details, "user_id"), Get(data, "userId"),
                                 Get(data, "browser_id")>>
      [] header = "ip_address" -> <<Get(data.details, "ip_address"), Get(data, "ip_address")>>
      [] header = "component" -> <<Get(data, "component"), Get(data.details, "component")>>
      [] header = "action" -> <<Get(data, "action"), Get(data, "event")>>
      [] header = "browser_id" -> <<Get(data, "browser_id"), Get(data, "userId")>>

\* the record has no value for the column
NoValue(data, header) == \A v \in Range(SourcesOf(data, header)) : ~Truthy(v)

\* the columns whose values are strings in every record
TextColumns == {h \in Range(csvHeaders) : h \notin {"attempt_id", "details"}}

\* the number of fields a reader of the CSV line finds: one more than its commas
FieldsIn(line) == 1 + Cardinality({i \in 1..Len(line) : SubSeq(line, i, i) = ","})

\* C27: the CSV sink serializes every record into the fixed 13-column order: the line
\* of a record has 13 fields, and for every column for which the record has no value
\* the field is the empty string.
C27_CsvColumns ==
    \A i \in DOMAIN csvBuffer : \A r \in Held :
        r.attempt_id = csvBuffer[i].attempt_id
          => /\ FieldsIn(csvLine(csvBuffer[i])) = Len(csvHeaders)
             /\ \A h \in TextColumns :
                  NoValue(r, h) => csvField(csvBuffer[i], h) = ""

(***************************************************************************)
(* C28                                                                     *)
(***************************************************************************)
\* the control is filled: checked for a checkbox or a radio button, a value that is
\* not blank for every other control
Filled(c) == IF IsRadio(c) THEN form[c].checked ELSE Trim(form[c].value) # ""

\* C28: the field presence map of a form_submit record tells for every control of the
\* form whether it was filled at submit time: a control that is filled or checked is
\* never reported as empty under its field name.
C28_FilledNeverReportedEmpty ==
    [][(lastOp'.op = "submit" /\ Emits("form_submit"))
       => \A r \in Held' :
            r.id = nextId
              => \A c \in Range(FormControls) :
                   Filled(c) => r.field_presence_map[formFieldName(c)]]_vars

(***************************************************************************)
(* C29                                                                     *)
(***************************************************************************)
\* the LogViewer has handled every reset so far: no logs_reset signal is on its way
\* and no reset of its own is in flight
ResetSettled ==
    /\ \A i \in DOMAIN socketQueue : socketQueue[i].type # "logs_reset"
    /\ \A req \in requests : req.kind # "reset"

\* C29: after a reset, its own or one signalled by logs_reset, the LogViewer shows no
\* record that was stored before the reset, whatever log fetch was in flight; and a
\* logs_buffer backfill replaces the viewer's list with exactly the buffer's records.
C29_NoRecordSurvivesReset ==
    [][/\ ResetSettled' => Range(viewerLogs') \cap wiped' = {}
       /\ (lastOp'.op = "message" /\ lastOp'.key = "logs_buffer")
            => viewerLogs' = Head(socketQueue).logs]_vars

(***************************************************************************)
(* C30                                                                     *)
(***************************************************************************)
\* the LogViewer shows an error: the one error it renders is the connection status
viewerShowsError == connectionStatus = "error"

\* the LogsViewer page shows an error: it renders error when it is not null
pageShowsError == pageError # Null

\* C30: when a viewer's log fetch fails (no response, or a response that is not 2xx)
\* the viewer ends in a visible error state, with loading cleared and the records it
\* showed unchanged; starting a new fetch clears the error, and a fetch that succeeds
\* replaces the records.
C30_FetchFailureVisible ==
    [][/\ (lastOp'.op = "pageFetch_done" /\ lastOp'.key # "ok")
            => pageShowsError' /\ ~pageLoading' /\ pageLogs' = pageLogs
       /\ (lastOp'.op = "fetchLogs" /\ lastOp'.key = "page") => ~pageShowsError'
       /\ (lastOp'.op = "pageFetch_done" /\ lastOp'.key = "ok") => pageLogs' = lastOp'.snap
       /\ (lastOp'.op = "fetchLogs_done" /\ lastOp'.key # "ok")
            => viewerShowsError' /\ ~viewerLoading' /\ viewerLogs' = viewerLogs
       /\ (lastOp'.op = "fetchLogs_done" /\ lastOp'.key = "ok")
            => viewerLogs' = lastOp'.snap]_vars

(***************************************************************************)
(* C31                                                                     *)
(***************************************************************************)
\* the LogViewer has thrown while rendering its list
viewerCrashed == ~viewerLoading /\ \E i \in DOMAIN viewerLogs : viewerRowThrows(viewerLogs[i])

\* the LogsViewer page has thrown while rendering its list
pageCrashed == \E i \in DOMAIN pageLogs : pageRowThrows(pageLogs[i])

\* C31: a stored record with missing or malformed fields (no details, no viewport, no
\* timestamp, a description that does not parse) never crashes a viewer: the row is
\* rendered, with 'Unknown time' for a missing timestamp.
C31_MalformedRecordRendered ==
    /\ ~viewerCrashed
    /\ ~pageCrashed
    /\ \A i \in DOMAIN viewerLogs :
         (~viewerLoading /\ ~Has(viewerLogs[i], "timestamp"))
           => viewerRow(viewerLogs[i]).time = "Unknown time"
    /\ \A i \in DOMAIN pageLogs :
         ~Has(pageLogs[i], "timestamp") => pageRow(pageLogs[i]).time = "Unknown time"

(***************************************************************************)
(* C32                                                                     *)
(***************************************************************************)
\* C32: the in-memory buffers stay bounded by their configured sizes: whatever the
\* logInteraction calls and the delivery outcomes, also with a backend that keeps
\* failing, the JSON queue and the CSV buffer never hold more than a bound fixed by the
\* batch size and the buffer size; the formula allows each twice its size.
C32_BuffersBounded ==
    /\ Len(logQueue) <= 2 * batchSize
    /\ Len(csvBuffer) <= 2 * bufferSize

(***************************************************************************)
(* C33                                                                     *)
(***************************************************************************)
\* in how many places of the JSON path the record is: once for every position in the
\* live queue, once for every in-flight snapshot that holds it, once if delivered
PlacesOf(id) ==
    Cardinality({i \in DOMAIN logQueue : logQueue[i].id = id})
      + Cardinality({s \in inflight : id \in Ids(s)})
      + (IF id \in jsonStored THEN 1 ELSE 0)

\* C33: record conservation on the JSON path.  Each record logInteraction accepted is
\* in exactly one place: the live queue, the snapshot of one in-flight delivery,
\* delivered, or discarded by clearQueue.  A step keeps every record in one place; only
\* clearQueue takes a record out, from the live queue, and a discarded record does not
\* come back.
C33_RecordConservation ==
    [][/\ \A id \in 1..(nextId' - 1) : PlacesOf(id)' <= 1
       /\ \A id \in nextId..(nextId' - 1) : PlacesOf(id)' = 1
       /\ \A id \in 1..(nextId - 1) :
            /\ PlacesOf(id) = 0 => PlacesOf(id)' = 0
            /\ (PlacesOf(id) = 1 /\ PlacesOf(id)' = 0)
                 => (lastOp'.op = "clearQueue" /\ InQueue(id))]_vars

\* a failed snapshot has just been re-queued while one record is delivered and another
\* was discarded by clearQueue
C33_Witness ==
    /\ lastOp.op = "fetch_fail"
    /\ \E id \in Range(lastOp.snap) : InQueue(id)
    /\ \E id \in 1..(nextId - 1) : id \in jsonStored
    /\ \E id \in 1..(nextId - 1) : PlacesOf(id) = 0

(***************************************************************************)
(* C34                                                                     *)
(***************************************************************************)
\* the record is back in the live queue after a failed delivery
Requeued(id) == InQueue(id) /\ Attempted(id)

\* C34 as written: once every delivery call succeeds and the flush timer keeps firing,
\* every record that was re-queued after a failure is eventually delivered, and once no
\* new records are logged the live queue eventually becomes and stays empty.
C34_RequeuedEventuallyDelivered ==
    /\ \A id \in 1..MaxRecords : Requeued(id) ~> (id \in jsonStored)
    /\ <>[](logQueue = <<>>)

\* C34, amended: once every delivery call succeeds and the flush timer keeps firing,
\* every record that was re-queued after a failure is eventually delivered, unless
\* clearQueue discards it first; and once no new records are logged the live queue
\* eventually becomes and stays empty.
C34_RequeuedDeliveredOrDiscarded ==
    /\ \A id \in 1..MaxRecords : Requeued(id) ~> (id \in jsonStored \/ PlacesOf(id) = 0)
    /\ <>[](logQueue = <<>>)

\* a record that failed once has been sent a second time and is delivered, and the
\* live queue is empty
C34_Witness ==
    /\ lastOp.op = "fetch_ok"
    /\ \E id \in Range(lastOp.snap) : Count(jsonCalls, id) >= 2 /\ id \in jsonStored
    /\ failures >= 1
    /\ logQueue = <<>>

(***************************************************************************)
(* C35                                                                     *)
(***************************************************************************)
\* C35: a record appended to the CSV buffer while a CSV flush is in flight is not lost
\* when that flush succeeds: after the flush has completed, every record that was in
\* the buffer is still in the buffer or was part of a delivered CSV payload.
C35_AppendedDuringFlushKept ==
    [][lastOp'.op = "csv_ok"
       => BufferedIds(csvBuffer) \subseteq (BufferedIds(csvBuffer') \cup csvStored')]_vars

(***************************************************************************)
(* C36                                                                     *)
(***************************************************************************)
\* C36: clearQueue is a complete reset.  Once it has returned, no record captured
\* before the call (id below the next id at that moment) is in the live queue again,
\* whatever happens to a delivery that was in flight at the time: the step that
\* follows clearQueue, the failure of such a delivery included, puts no such record
\* into the queue.
C36_ClearQueueIsCompleteReset ==
    [][lastOp.op = "clearQueue"
         => \A i \in DOMAIN logQueue' : logQueue'[i].id >= nextId]_vars

(***************************************************************************)
(* C37                                                                     *)
(***************************************************************************)
\* the debounce entry stored under f's key is f's own: f has a timer pending and the
\* stored value is what f holds
OwnsEntry(f) ==
    /\ Has(inputChangeTimers, fieldKey(f))
    /\ inputChangeTimers[fieldKey(f)] \in DOMAIN timers
    /\ Has(inputChangeValues, fieldKey(f))
    /\ inputChangeValues[fieldKey(f)].value = fieldValue[f]
    /\ fieldValue[f] # ""

\* C37: debounce state is per field.  A raw input on one field leaves the pending timer
\* and the stored value of every other field as they were, also for fields without id
\* and name that share tag and type.
C37_DebouncePerField ==
    [][\A e \in AllElements : \A v \in InputValues(e) :
          RawInput(e, v)
            => \A f \in AllElements \ {e} :
                  OwnsEntry(f)
                    => /\ inputChangeTimers[fieldKey(f)] \in DOMAIN timers'
                       /\ Has(inputChangeValues', fieldKey(f))
                       /\ inputChangeValues'[fieldKey(f)] = inputChangeValues[fieldKey(f)]]_vars

(***************************************************************************)
(* C38                                                                     *)
(***************************************************************************)
\* C38: an input_change record is emitted only if a raw input occurred on that field
\* since the field's previous input_change record, that is, only while a value is
\* stored for the field (both emitters delete it); a blur after the settle timer has
\* emitted, or with no input at all, emits nothing.
C38_RecordOnlyAfterRawInput ==
    [][Emits("input_change") => Has(inputChangeValues, lastOp'.key)]_vars

(***************************************************************************)
(* C39                                                                     *)
(***************************************************************************)
\* the ids the viewer's list shows
ShownIds == {viewerLogs[i].id : i \in DOMAIN viewerLogs}

\* the step is the viewer handling a fetch response, a new_log or a logs_buffer
ListStep ==
    \/ lastOp'.op = "fetchLogs_done"
    \/ lastOp'.op = "message" /\ lastOp'.key \in {"new_log", "logs_buffer"}

\* C39: under every interleaving of a fetch response, new_log and logs_buffer, the
\* viewer's list never holds the same id twice, and a record the list shows that the
\* store still holds is not dropped from the list by the next response or message.
C39_ListUniqueAndComplete ==
    [][/\ \A i, j \in DOMAIN viewerLogs' : viewerLogs'[i].id = viewerLogs'[j].id => i = j
       /\ ListStep
            => \A r \in Range(serverLogs') :
                  r.id \in ShownIds => \E i \in DOMAIN viewerLogs' : viewerLogs'[i].id = r.id]_vars

(***************************************************************************)
(* C40                                                                     *)
(***************************************************************************)
\* C40: the event column of a record's CSV row is the record's event name; it is never
\* 'unknown' for a record that has an event name.
C40_EventColumnIsEventName ==
    \A i \in DOMAIN csvBuffer : \A r \in Held :
        (r.attempt_id = csvBuffer[i].attempt_id /\ Truthy(r.event_name))
          => /\ csvField(csvBuffer[i], "event") = r.event_name
             /\ csvField(csvBuffer[i], "event") # "unknown"

====
